------------------------ MODULE ControlServerProofs ------------------------
(***************************************************************************)
(* Proofs about ControlServer, for any clients, queue limit and number of  *)
(* broadcasts, on a system where closing a socket aborts an accept and on  *)
(* one where it does not: types, the order and freshness of what a client  *)
(* is sent, and what stop leaves behind.                                   *)
(***************************************************************************)
EXTENDS ControlServer, FiniteSetTheorems, TLAPS

-----------------------------------------------------------------------------
(* The inductive invariant.                                                *)

(* A writer that has not begun to close its connection.                    *)
Serving == WriterLives \ {"closing", "leaving"}

(* stop has ws_connections_mutex_ from its lock to the clearing of the     *)
(* list.                                                                   *)
Locked == wsMutex <=> main \in {"clients", "notify", "joinWriter"}

(* Before the handshake has succeeded there is no client object.           *)
Untouched ==
    \A c \in Clients : session[c] \in {None, "handshake"} =>
        writer[c] = None /\ clientRunning[c] = TRUE /\ c \notin listed

(* A client whose flag is down is being closed by its writer, or is the    *)
(* one whose writer stop is waiting for.                                   *)
DownIsLeaving ==
    \A c \in Clients : clientRunning[c] = FALSE /\ writer[c] \in Serving =>
        main \in {"notify", "joinWriter"} /\ at = c

(* A client that is served is in the list, or about to be put there.       *)
Served ==
    \A c \in Clients : writer[c] \in Serving => c \in listed \/ session[c] = "listing"

(* A client was sent payloads it was offered, each offered once.           *)
Numbered ==
    \A c \in Clients :
        /\ Sent(c) \subseteq offers[c] /\ offers[c] \subseteq 1..tick
        /\ c \in todo => tick >= 1 /\ tick \notin offers[c]

IInv ==
    /\ TypeOK /\ Locked /\ Untouched /\ DownIsLeaving /\ Served
    /\ Numbered /\ FreshInOrder

-----------------------------------------------------------------------------
(* TypeOK, part by part.                                                   *)

ServerOK ==
    /\ up \in BOOLEAN /\ running \in BOOLEAN /\ wsMutex \in BOOLEAN
    /\ acceptor \in [Listeners -> {"null", "open", "closed"}]
    /\ loop \in [Listeners -> {None, "check", "enter", "accept", "ended"}]
    /\ caster \in {None, "sleep", "prune", "offer", "ended"}
    /\ main \in {"idle", "http", "serving", "close", "reset", "join",
                 "metrics", "lock", "clients", "notify", "joinWriter", "done"}
    /\ at \in Listeners \union Clients \union {None}

ListsOK ==
    /\ snapshot \subseteq Clients /\ todo \subseteq snapshot
    /\ tick \in 0..MaxTicks
    /\ listed \subseteq Clients

ClientsOK ==
    /\ session \in [Clients -> {None, "handshake", "listing", "ended"}]
    /\ clientRunning \in [Clients -> BOOLEAN]
    /\ pending \in [Clients -> Seq(Payloads)]
    /\ \A c \in Clients : Len(pending[c]) <= MaxPending
    /\ writer \in [Clients -> WriterLives \union {None, "ended"}]
    /\ hand \in [Clients -> Payloads \union {0}]
    /\ \A c \in Clients : hand[c] # 0 <=> writer[c] = "write"
    /\ peer \in [Clients -> {"reading", "stuck", "gone"}]
    /\ wire \in [Clients -> Seq(Payloads)]
    /\ offers \in [Clients -> SUBSET Payloads]
    /\ missed \in [Clients -> BOOLEAN]

LEMMA TypeParts ==
    /\ TypeOK <=> ServerOK /\ ListsOK /\ ClientsOK
    /\ TypeOK' <=> ServerOK' /\ ListsOK' /\ ClientsOK'
  BY DEF TypeOK, ServerOK, ListsOK, ClientsOK

-----------------------------------------------------------------------------
(* The steps by what they touch.                                           *)

Accepting ==
    \/ AcceptHttp
    \/ \E l \in Listeners :
          ListenerCheck(l) \/ EnterAccept(l) \/ AcceptFails(l) \/ AcceptAborted(l)

StartStop ==
    \/ StartHttp \/ StartWs \/ StopServer \/ JoinMetrics \/ LockConnections
    \/ \E l \in Listeners : CloseAcceptor(l) \/ ResetAcceptor(l) \/ JoinListener(l)

LEMMA NextCases ==
  ASSUME Next
  PROVE  \/ Accepting \/ StartStop \/ ClearConnections
         \/ CastWakes \/ TakeSnapshot \/ EndRound
         \/ \E c \in Clients :
               \/ AcceptWs(c) \/ HandshakeFails(c) \/ StartClient(c) \/ ListClient(c)
               \/ Offer(c) \/ Peer(c) \/ Writer(c)
               \/ StopClient(c) \/ NotifyWriter(c) \/ JoinWriter(c)
  BY DEF Next, MainThread, Caster, Environment, Listener, Accepting, StartStop

LEMMA AcceptingKeeps ==
  ASSUME Accepting
  PROVE  UNCHANGED <<running, acceptor, castVars, mainVars, listed, session, clientVars,
                     peer, observed>>
<1>1. CASE AcceptHttp
  BY <1>1 DEF AcceptHttp, ListenerUnchanged
<1>2. ASSUME NEW l \in Listeners,
             ListenerCheck(l) \/ EnterAccept(l) \/ AcceptFails(l) \/ AcceptAborted(l)
      PROVE  ListenerUnchanged /\ UNCHANGED session
  BY <1>2 DEF ListenerCheck, EnterAccept, AcceptFails, AcceptAborted
<1> QED
  BY <1>1, <1>2 DEF Accepting, ListenerUnchanged

LEMMA StartStopKeeps ==
  ASSUME StartStop
  PROVE  UNCHANGED <<snapshot, todo, tick, listed, session, clientVars, peer, observed>>
<1> USE DEF MainUnchanged, ClientsUnchanged, clientVars, observed
<1>1. CASE StartHttp
  BY <1>1 DEF StartHttp
<1>2. CASE StartWs
  BY <1>2 DEF StartWs
<1>3. CASE StopServer
  BY <1>3 DEF StopServer
<1>4. CASE JoinMetrics \/ LockConnections
  BY <1>4 DEF JoinMetrics, LockConnections
<1>5. ASSUME NEW l \in Listeners, CloseAcceptor(l) \/ ResetAcceptor(l) \/ JoinListener(l)
      PROVE  UNCHANGED <<snapshot, todo, tick, listed, session, clientVars, peer, observed>>
  BY <1>5 DEF CloseAcceptor, ResetAcceptor, JoinListener
<1> QED
  BY <1>1, <1>2, <1>3, <1>4, <1>5 DEF StartStop

-----------------------------------------------------------------------------
(* Types.                                                                  *)

LEMMA ServerStep ==
  ASSUME ServerOK, Next
  PROVE  ServerOK'
<1> USE DEF Listeners, serverVars, castVars, mainVars
<1>1. CASE UNCHANGED <<up, serverVars, caster, mainVars>>
  BY <1>1 DEF ServerOK
<1>2. CASE up' \in BOOLEAN /\ UNCHANGED <<serverVars, caster, mainVars>>
  BY <1>2 DEF ServerOK
<1>3. CASE Accepting
  <2>1. UNCHANGED <<running, acceptor, caster, mainVars>>
    BY <1>3, AcceptingKeeps
  <2>2. up' \in BOOLEAN
    BY <1>3 DEF Accepting, AcceptHttp, ListenerCheck, EnterAccept, AcceptFails, AcceptAborted,
                ServerOK
  <2>3. loop' \in [Listeners -> {None, "check", "enter", "accept", "ended"}]
    BY <1>3 DEF Accepting, AcceptHttp, ListenerCheck, EnterAccept, AcceptFails, AcceptAborted,
                LoopStep, ServerOK
  <2> QED
    BY <2>1, <2>2, <2>3 DEF ServerOK
<1>4. CASE StartStop
  <2> USE DEF MainUnchanged, MainStep
  <2>1. CASE StartHttp
    BY <2>1 DEF StartHttp, BeginStop, ServerOK
  <2>2. CASE StartWs
    BY <2>2 DEF StartWs, BeginStop, ServerOK
  <2>3. CASE StopServer
    BY <2>3 DEF StopServer, BeginStop, ServerOK
  <2>4. CASE JoinMetrics
    BY <2>4 DEF JoinMetrics, ServerOK
  <2>5. CASE LockConnections
    BY <2>5 DEF LockConnections, ServerOK
  <2>6. ASSUME NEW l \in Listeners, CloseAcceptor(l) PROVE ServerOK'
    BY <2>6 DEF CloseAcceptor, ServerOK
  <2>7. ASSUME NEW l \in Listeners, ResetAcceptor(l) PROVE ServerOK'
    BY <2>7 DEF ResetAcceptor, ServerOK
  <2>8. ASSUME NEW l \in Listeners, JoinListener(l) PROVE ServerOK'
    BY <2>8 DEF JoinListener, ServerOK
  <2> QED
    BY <1>4, <2>1, <2>2, <2>3, <2>4, <2>5, <2>6, <2>7, <2>8 DEF StartStop
<1>5. CASE ClearConnections
  BY <1>5 DEF ClearConnections, MainStep, MainUnchanged, ServerOK
<1>6. CASE CastWakes \/ TakeSnapshot \/ EndRound
  BY <1>6 DEF CastWakes, TakeSnapshot, EndRound, CastUnchanged, ServerOK
<1>7. ASSUME NEW c \in Clients, AcceptWs(c) PROVE ServerOK'
  BY <1>7 DEF AcceptWs, LoopStep, ListenerUnchanged, ServerOK
<1>8. ASSUME NEW c \in Clients,
             HandshakeFails(c) \/ StartClient(c) \/ ListClient(c) \/ Offer(c) \/ Peer(c)
      PROVE  ServerOK'
  BY <1>1, <1>8 DEF HandshakeFails, StartClient, ListClient, Offer, Peer, SessionUnchanged,
                    CastUnchanged
<1>9. ASSUME NEW c \in Clients, Writer(c) PROVE ServerOK'
  <2>1. up' \in BOOLEAN
    BY <1>9 DEF Writer, LoopCheck, TestPredicate, Park, WriteSucceeds, WriteFails, CloseSocket,
                Leave, Referenced, ServerOK
  <2>2. WriterUnchanged
    BY <1>9 DEF Writer, LoopCheck, TestPredicate, Park, WriteSucceeds, WriteFails, CloseSocket,
                Leave
  <2> QED
    BY <1>2, <2>1, <2>2 DEF WriterUnchanged
<1>10. ASSUME NEW c \in Clients, StopClient(c) \/ NotifyWriter(c) \/ JoinWriter(c)
       PROVE  ServerOK'
  BY <1>10 DEF StopClient, NotifyWriter, JoinWriter, MainStep, MainUnchanged, ServerOK
<1> QED
  BY <1>3, <1>4, <1>5, <1>6, <1>7, <1>8, <1>9, <1>10, NextCases

LEMMA ListsStep ==
  ASSUME ListsOK, Next
  PROVE  ListsOK'
<1> USE DEF serverVars, castVars, mainVars
<1>0. MaxTicks \in Nat
  BY ControlServerAssumption
<1>1. CASE UNCHANGED <<snapshot, todo, tick, listed>>
  BY <1>1 DEF ListsOK
<1>2. CASE Accepting \/ StartStop
  BY <1>1, <1>2, AcceptingKeeps, StartStopKeeps
<1>3. CASE ClearConnections
  BY <1>3 DEF ClearConnections, MainUnchanged, ListsOK
<1>4. CASE CastWakes
  BY <1>1, <1>4 DEF CastWakes
<1>5. CASE TakeSnapshot
  BY <1>0, <1>5 DEF TakeSnapshot, StillRunning, ListsOK
<1>6. CASE EndRound
  BY <1>6 DEF EndRound, StillRunning, ListsOK
<1>7. ASSUME NEW c \in Clients, AcceptWs(c) \/ HandshakeFails(c) \/ StartClient(c) \/ Peer(c)
      PROVE  ListsOK'
  BY <1>1, <1>7 DEF AcceptWs, HandshakeFails, StartClient, Peer, SessionUnchanged,
                    ListenerUnchanged
<1>8. ASSUME NEW c \in Clients, ListClient(c) PROVE ListsOK'
  BY <1>8 DEF ListClient, SessionUnchanged, ListsOK
<1>9. ASSUME NEW c \in Clients, Offer(c) PROVE ListsOK'
  BY <1>9 DEF Offer, CastUnchanged, ListsOK
<1>10. ASSUME NEW c \in Clients, Writer(c) PROVE ListsOK'
  <2>1. WriterUnchanged
    BY <1>10 DEF Writer, LoopCheck, TestPredicate, Park, WriteSucceeds, WriteFails, CloseSocket,
                 Leave
  <2> QED
    BY <1>1, <2>1 DEF WriterUnchanged
<1>11. ASSUME NEW c \in Clients, StopClient(c) \/ NotifyWriter(c) \/ JoinWriter(c)
       PROVE  ListsOK'
  BY <1>1, <1>11 DEF StopClient, NotifyWriter, JoinWriter, MainUnchanged
<1> QED
  BY <1>2, <1>3, <1>4, <1>5, <1>6, <1>7, <1>8, <1>9, <1>10, <1>11, NextCases

(* The queue of a client.                                                  *)
LEMMA EnqueuedIs ==
  ASSUME NEW q \in Seq(Payloads), NEW m \in Payloads, Len(q) <= MaxPending
  PROVE  Enqueued(q, m) \in Seq(Payloads) /\ Len(Enqueued(q, m)) <= MaxPending
<1>0. MaxPending \in Nat /\ MaxPending >= 1 /\ Len(q) \in Nat
  BY ControlServerAssumption
<1>1. CASE Len(q) >= MaxPending
  <2>1. q # <<>> /\ Tail(q) \in Seq(Payloads) /\ Len(Tail(q)) = Len(q) - 1
    BY <1>0, <1>1
  <2>2. Enqueued(q, m) = Append(Tail(q), m)
    BY <1>1 DEF Enqueued
  <2> QED
    BY <1>0, <1>1, <2>1, <2>2
<1>2. CASE Len(q) < MaxPending
  <2>1. Enqueued(q, m) = Append(q, m)
    BY <1>0, <1>2 DEF Enqueued
  <2> QED
    BY <1>0, <1>2, <2>1
<1> QED
  BY <1>0, <1>1, <1>2

LEMMA ClientsStep ==
  ASSUME ListsOK, ClientsOK, Untouched, Numbered, Next
  PROVE  ClientsOK'
<1> USE DEF serverVars, castVars, mainVars, clientVars, observed, WriterLives
<1>0. MaxPending \in Nat /\ MaxTicks \in Nat
  BY ControlServerAssumption
<1>1. CASE UNCHANGED <<session, clientVars, peer, observed>>
  BY <1>1 DEF ClientsOK
<1>2. CASE Accepting \/ StartStop
  BY <1>1, <1>2, AcceptingKeeps, StartStopKeeps
<1>3. CASE ClearConnections \/ CastWakes \/ TakeSnapshot \/ EndRound
  BY <1>1, <1>3 DEF ClearConnections, MainUnchanged, ClientsUnchanged, CastWakes, TakeSnapshot,
                    EndRound, CastUnchanged
<1>4. ASSUME NEW c \in Clients, AcceptWs(c) \/ HandshakeFails(c) \/ ListClient(c)
      PROVE  ClientsOK'
  <2>1. session' \in [Clients -> {None, "handshake", "listing", "ended"}]
    BY <1>4 DEF AcceptWs, HandshakeFails, ListClient, ClientsOK
  <2>2. UNCHANGED <<clientVars, peer, observed>>
    BY <1>4 DEF AcceptWs, HandshakeFails, ListClient, ListenerUnchanged, SessionUnchanged
  <2> QED
    BY <2>1, <2>2 DEF ClientsOK
<1>5. ASSUME NEW c \in Clients, StartClient(c) PROVE ClientsOK'
  <2>1. session' = [session EXCEPT ![c] = "listing"] /\ writer' = [writer EXCEPT ![c] = "check"]
    BY <1>5 DEF StartClient
  <2>2. UNCHANGED <<clientRunning, pending, hand, peer, observed>>
    BY <1>5 DEF StartClient, SessionUnchanged
  <2>3. writer[c] = None /\ hand[c] = 0
    BY <1>5 DEF StartClient, Untouched, ClientsOK, None
  <2>4. \A d \in Clients : hand'[d] # 0 <=> writer'[d] = "write"
    BY <2>1, <2>2, <2>3 DEF ClientsOK
  <2> QED
    BY <2>1, <2>2, <2>4 DEF ClientsOK
<1>6. ASSUME NEW c \in Clients, Peer(c) PROVE ClientsOK'
  BY <1>6 DEF Peer, ClientsOK
<1>7. ASSUME NEW c \in Clients, JoinWriter(c) PROVE ClientsOK'
  BY <1>1, <1>7 DEF JoinWriter, MainUnchanged, ClientsUnchanged
<1>8. ASSUME NEW c \in Clients, StopClient(c) PROVE ClientsOK'
  BY <1>8 DEF StopClient, MainUnchanged, ClientsOK
<1>9. ASSUME NEW c \in Clients
      PROVE  /\ Notified(c) \in WriterLives \union {None, "ended"}
             /\ Notified(c) = "write" <=> writer[c] = "write"
  BY DEF Notified, ClientsOK
<1>10. ASSUME NEW c \in Clients, NotifyWriter(c) PROVE ClientsOK'
  <2>1. writer' = [writer EXCEPT ![c] = Notified(c)] /\ missed' \in [Clients -> BOOLEAN]
    BY <1>10 DEF NotifyWriter, ClientsOK
  <2>2. UNCHANGED <<session, clientRunning, pending, hand, peer, wire, offers>>
    BY <1>10 DEF NotifyWriter, MainUnchanged
  <2>3. \A d \in Clients : hand'[d] # 0 <=> writer'[d] = "write"
    BY <1>9, <2>1, <2>2 DEF ClientsOK
  <2>4. writer' \in [Clients -> WriterLives \union {None, "ended"}]
    BY <1>9, <2>1 DEF ClientsOK
  <2> QED
    BY <2>1, <2>2, <2>3, <2>4 DEF ClientsOK
<1>11. ASSUME NEW c \in Clients, Offer(c) PROVE ClientsOK'
  <2>0. UNCHANGED <<session, clientRunning, hand, peer, wire, missed>>
    BY <1>11 DEF Offer, CastUnchanged
  <2>1. CASE UNCHANGED <<pending, offers, writer>>
    BY <1>1, <2>0, <2>1
  <2>2. CASE /\ pending' = [pending EXCEPT ![c] = Enqueued(@, tick)]
             /\ offers' = [offers EXCEPT ![c] = @ \union {tick}]
             /\ writer' = [writer EXCEPT ![c] = Notified(c)]
    <3>1. tick \in Payloads
      BY <1>0, <1>11 DEF Offer, Numbered, ListsOK, Payloads
    <3>2. Enqueued(pending[c], tick) \in Seq(Payloads) /\ Len(Enqueued(pending[c], tick)) <= MaxPending
      BY <3>1, EnqueuedIs DEF ClientsOK
    <3>3. pending' \in [Clients -> Seq(Payloads)] /\ \A d \in Clients : Len(pending'[d]) <= MaxPending
      BY <2>2, <3>2 DEF ClientsOK
    <3>4. offers' \in [Clients -> SUBSET Payloads]
      BY <2>2, <3>1 DEF ClientsOK
    <3>5. \A d \in Clients : hand'[d] # 0 <=> writer'[d] = "write"
      BY <1>9, <2>0, <2>2 DEF ClientsOK
    <3>6. writer' \in [Clients -> WriterLives \union {None, "ended"}]
      BY <1>9, <2>2 DEF ClientsOK
    <3> QED
      BY <2>0, <3>3, <3>4, <3>5, <3>6 DEF ClientsOK
  <2> QED
    BY <1>11, <2>1, <2>2 DEF Offer
<1>12. ASSUME NEW c \in Clients, Writer(c) PROVE ClientsOK'
  <2> USE DEF WriterUnchanged, WriterStep
  <2>1. CASE LoopCheck(c)
    BY <2>1 DEF LoopCheck, ClientsOK
  <2>2. CASE Park(c)
    BY <2>2 DEF Park, ClientsOK
  <2>3. CASE Leave(c)
    BY <2>3 DEF Leave, ClientsOK
  <2>4. CASE CloseSocket(c)
    BY <2>4 DEF CloseSocket, ClientsOK
  <2>5. CASE WriteFails(c)
    BY <2>5 DEF WriteFails, ClientsOK
  <2>6. CASE WriteSucceeds(c)
    <3>1. hand[c] \in Payloads
      BY <2>6 DEF WriteSucceeds, ClientsOK
    <3>2. wire' \in [Clients -> Seq(Payloads)]
      BY <2>6, <3>1 DEF WriteSucceeds, ClientsOK
    <3>3. hand' = [hand EXCEPT ![c] = 0] /\ writer' = [writer EXCEPT ![c] = "check"]
      BY <2>6 DEF WriteSucceeds
    <3>4. UNCHANGED <<session, clientRunning, pending, peer, offers, missed>>
      BY <2>6 DEF WriteSucceeds
    <3> QED
      BY <3>2, <3>3, <3>4 DEF ClientsOK
  <2>7. CASE TestPredicate(c)
    <3>0. writer[c] = "pred" /\ UNCHANGED <<session, clientRunning, peer, observed>>
      BY <2>7 DEF TestPredicate
    <3>1. CASE /\ writer' = [writer EXCEPT ![c] = "parking"] \/ writer' = [writer EXCEPT ![c] = "closing"]
               /\ UNCHANGED <<pending, hand>>
      BY <3>0, <3>1 DEF ClientsOK
    <3>2. CASE /\ pending[c] # <<>> /\ writer' = [writer EXCEPT ![c] = "write"]
               /\ hand' = [hand EXCEPT ![c] = Head(pending[c])]
               /\ pending' = [pending EXCEPT ![c] = Tail(@)]
      <4>1. PICK q \in Seq(Payloads) : q = pending[c]
        BY DEF ClientsOK
      <4>2. Head(q) \in Payloads /\ Tail(q) \in Seq(Payloads) /\ Len(Tail(q)) <= Len(q)
        BY <3>2, <4>1
      <4>3. pending' \in [Clients -> Seq(Payloads)] /\ \A d \in Clients : Len(pending'[d]) <= MaxPending
        BY <1>0, <3>2, <4>1, <4>2 DEF ClientsOK
      <4>4. Head(q) # 0
        BY <4>2 DEF Payloads
      <4>5. \A d \in Clients : hand'[d] # 0 <=> writer'[d] = "write"
        BY <3>2, <4>1, <4>4 DEF ClientsOK
      <4>6. hand' \in [Clients -> Payloads \union {0}]
        BY <3>2, <4>1, <4>2 DEF ClientsOK
      <4> QED
        BY <3>0, <3>2, <4>3, <4>5, <4>6 DEF ClientsOK
    <3> QED
      BY <2>7, <3>1, <3>2 DEF TestPredicate
  <2> QED
    BY <1>12, <2>1, <2>2, <2>3, <2>4, <2>5, <2>6, <2>7 DEF Writer
<1> QED
  BY <1>2, <1>3, <1>4, <1>5, <1>6, <1>7, <1>8, <1>10, <1>11, <1>12, NextCases

-----------------------------------------------------------------------------
(* Who is listed and who is served.                                        *)

LEMMA LockedStep ==
  ASSUME ServerOK, Locked, Next
  PROVE  Locked'
<1> USE DEF castVars, mainVars, Locked
<1>1. CASE UNCHANGED <<wsMutex, main>>
  BY <1>1
<1>2. CASE Accepting
  BY <1>1, <1>2, AcceptingKeeps
<1>3. CASE StartStop
  <2> USE DEF MainStep, MainUnchanged
  <2>1. CASE StartHttp \/ StartWs \/ StopServer
    BY <2>1 DEF StartHttp, StartWs, StopServer, BeginStop
  <2>2. CASE JoinMetrics \/ LockConnections
    BY <2>2 DEF JoinMetrics, LockConnections
  <2>3. ASSUME NEW l \in Listeners, CloseAcceptor(l) \/ ResetAcceptor(l) \/ JoinListener(l)
        PROVE  Locked'
    BY <2>3 DEF CloseAcceptor, ResetAcceptor, JoinListener
  <2> QED
    BY <1>3, <2>1, <2>2, <2>3 DEF StartStop
<1>4. CASE ClearConnections
  BY <1>4 DEF ClearConnections, MainStep
<1>5. CASE CastWakes \/ TakeSnapshot \/ EndRound
  BY <1>1, <1>5 DEF CastWakes, TakeSnapshot, EndRound, CastUnchanged
<1>6. ASSUME NEW c \in Clients, AcceptWs(c) \/ HandshakeFails(c) \/ StartClient(c) \/ ListClient(c)
      PROVE  Locked'
  BY <1>1, <1>6 DEF AcceptWs, HandshakeFails, StartClient, ListClient, ListenerUnchanged,
                    SessionUnchanged
<1>7. ASSUME NEW c \in Clients, Offer(c) \/ Peer(c) PROVE Locked'
  BY <1>1, <1>7 DEF Offer, Peer, CastUnchanged
<1>8. ASSUME NEW c \in Clients, Writer(c) PROVE Locked'
  <2>1. WriterUnchanged
    BY <1>8 DEF Writer, LoopCheck, TestPredicate, Park, WriteSucceeds, WriteFails, CloseSocket,
                Leave
  <2> QED
    BY <1>1, <2>1 DEF WriterUnchanged
<1>9. ASSUME NEW c \in Clients, StopClient(c) \/ NotifyWriter(c) \/ JoinWriter(c) PROVE Locked'
  BY <1>9 DEF StopClient, NotifyWriter, JoinWriter, MainStep
<1> QED
  BY <1>2, <1>3, <1>4, <1>5, <1>6, <1>7, <1>8, <1>9, NextCases

(* What a step of its writer does to a client.                             *)
LEMMA WriterDoes ==
  ASSUME ClientsOK, NEW c \in Clients, Writer(c)
  PROVE  /\ writer[c] \in WriterLives /\ writer'[c] # None
         /\ \A d \in Clients : d # c => writer'[d] = writer[d] /\ clientRunning'[d] = clientRunning[d]
         /\ writer'[c] \in Serving => writer[c] \in Serving /\ clientRunning'[c] = clientRunning[c]
         /\ UNCHANGED <<serverVars, castVars, mainVars, listed, session, peer>>
<1> USE DEF WriterUnchanged, WriterStep, WriterLives, Serving, None, ClientsOK
<1>1. CASE LoopCheck(c)
  BY <1>1 DEF LoopCheck
<1>2. CASE Park(c)
  BY <1>2 DEF Park
<1>3. CASE Leave(c)
  BY <1>3 DEF Leave
<1>4. CASE CloseSocket(c)
  BY <1>4 DEF CloseSocket
<1>5. CASE WriteFails(c)
  BY <1>5 DEF WriteFails
<1>6. CASE WriteSucceeds(c)
  BY <1>6 DEF WriteSucceeds
<1>7. CASE TestPredicate(c)
  BY <1>7 DEF TestPredicate
<1> QED
  BY <1>1, <1>2, <1>3, <1>4, <1>5, <1>6, <1>7 DEF Writer

LEMMA UntouchedStep ==
  ASSUME TypeOK, Untouched, Next
  PROVE  Untouched'
<1> USE DEF serverVars, castVars, mainVars, clientVars, observed
<1>0. ListsOK /\ ClientsOK
  BY TypeParts
<1>1. CASE UNCHANGED <<session, writer, clientRunning>> /\ listed' \subseteq listed
  BY <1>1 DEF Untouched
<1>2. CASE Accepting \/ StartStop
  BY <1>1, <1>2, AcceptingKeeps, StartStopKeeps
<1>3. CASE ClearConnections \/ CastWakes
  BY <1>1, <1>3 DEF ClearConnections, MainUnchanged, ClientsUnchanged, CastWakes, CastUnchanged
<1>4. CASE TakeSnapshot \/ EndRound
  BY <1>1, <1>4 DEF TakeSnapshot, EndRound, CastUnchanged, StillRunning
<1>5. ASSUME NEW c \in Clients, AcceptWs(c) \/ HandshakeFails(c) PROVE Untouched'
  <2>1. /\ \/ session' = [session EXCEPT ![c] = "handshake"] /\ session[c] = None
           \/ session' = [session EXCEPT ![c] = "ended"]
        /\ UNCHANGED <<writer, clientRunning, listed>>
    BY <1>5 DEF AcceptWs, HandshakeFails, ListenerUnchanged, SessionUnchanged
  <2> QED
    BY <1>0, <2>1 DEF Untouched, ClientsOK, None
<1>6. ASSUME NEW c \in Clients, StartClient(c) PROVE Untouched'
  <2>1. /\ session' = [session EXCEPT ![c] = "listing"] /\ writer' = [writer EXCEPT ![c] = "check"]
        /\ UNCHANGED <<clientRunning, listed>>
    BY <1>6 DEF StartClient, SessionUnchanged
  <2> QED
    BY <1>0, <2>1 DEF Untouched, ClientsOK, None
<1>7. ASSUME NEW c \in Clients, ListClient(c) PROVE Untouched'
  <2>1. /\ session' = [session EXCEPT ![c] = "ended"] /\ listed' = listed \union {c}
        /\ UNCHANGED <<clientRunning, writer>>
    BY <1>7 DEF ListClient, SessionUnchanged
  <2> QED
    BY <1>0, <2>1 DEF Untouched, ClientsOK, None
<1>8. ASSUME NEW c \in Clients, Peer(c) \/ JoinWriter(c) PROVE Untouched'
  BY <1>1, <1>8 DEF Peer, JoinWriter, MainUnchanged, ClientsUnchanged
<1>9. ASSUME NEW c \in Clients, StopClient(c) PROVE Untouched'
  <2>1. /\ c \in listed /\ clientRunning' = [clientRunning EXCEPT ![c] = FALSE]
        /\ UNCHANGED <<session, writer, listed>>
    BY <1>9 DEF StopClient, MainUnchanged
  <2> QED
    BY <1>0, <2>1 DEF Untouched, ClientsOK
<1>10. ASSUME NEW c \in Clients, NotifyWriter(c) \/ Offer(c) PROVE Untouched'
  <2>1. /\ writer' = writer \/ writer' = [writer EXCEPT ![c] = Notified(c)]
        /\ UNCHANGED <<session, clientRunning, listed>>
    BY <1>10 DEF NotifyWriter, Offer, MainUnchanged, CastUnchanged
  <2> QED
    BY <1>0, <2>1 DEF Untouched, ClientsOK, Notified, None
<1>11. ASSUME NEW c \in Clients, Writer(c) PROVE Untouched'
  <2>1. /\ writer[c] # None /\ UNCHANGED <<session, listed>>
        /\ \A d \in Clients : d # c => writer'[d] = writer[d] /\ clientRunning'[d] = clientRunning[d]
    BY <1>0, <1>11, WriterDoes DEF WriterLives, None
  <2> QED
    BY <2>1 DEF Untouched
<1> QED
  BY <1>2, <1>3, <1>4, <1>5, <1>6, <1>7, <1>8, <1>9, <1>10, <1>11, NextCases

LEMMA DownIsLeavingStep ==
  ASSUME TypeOK, Locked, Untouched, DownIsLeaving, Next
  PROVE  DownIsLeaving'
<1> USE DEF serverVars, castVars, mainVars, clientVars, observed
<1>0. ClientsOK /\ ServerOK
  BY TypeParts
<1>1. CASE UNCHANGED <<clientRunning, writer, main, at>>
  BY <1>1 DEF DownIsLeaving
<1>2. CASE Accepting
  BY <1>1, <1>2, AcceptingKeeps
<1>3. CASE StartStop
  <2>1. main \notin {"notify", "joinWriter"}
    BY <1>3 DEF StartStop, StartHttp, StartWs, StopServer, JoinMetrics, LockConnections,
                CloseAcceptor, ResetAcceptor, JoinListener, MainStep
  <2>2. UNCHANGED <<clientRunning, writer>>
    BY <1>3, StartStopKeeps
  <2> QED
    BY <2>1, <2>2 DEF DownIsLeaving
<1>4. CASE ClearConnections
  BY <1>4 DEF ClearConnections, MainStep, ClientsUnchanged, DownIsLeaving
<1>5. CASE CastWakes \/ TakeSnapshot \/ EndRound
  BY <1>1, <1>5 DEF CastWakes, TakeSnapshot, EndRound, CastUnchanged
<1>6. ASSUME NEW c \in Clients, AcceptWs(c) \/ HandshakeFails(c) \/ ListClient(c) \/ Peer(c)
      PROVE  DownIsLeaving'
  BY <1>1, <1>6 DEF AcceptWs, HandshakeFails, ListClient, Peer, ListenerUnchanged, SessionUnchanged
<1>7. ASSUME NEW c \in Clients, StartClient(c) PROVE DownIsLeaving'
  <2>1. /\ clientRunning[c] = TRUE /\ writer' = [writer EXCEPT ![c] = "check"]
        /\ UNCHANGED <<clientRunning, main, at>>
    BY <1>7 DEF StartClient, SessionUnchanged, Untouched
  <2> QED
    BY <1>0, <2>1 DEF DownIsLeaving, ClientsOK
<1>8. ASSUME NEW c \in Clients, Offer(c) PROVE DownIsLeaving'
  <2>1. /\ writer' = writer \/ (clientRunning[c] /\ writer' = [writer EXCEPT ![c] = Notified(c)])
        /\ UNCHANGED <<clientRunning, main, at>>
    BY <1>8 DEF Offer, CastUnchanged
  <2>2. CASE writer' = writer
    BY <2>1, <2>2 DEF DownIsLeaving
  <2>3. CASE clientRunning[c] /\ writer' = [writer EXCEPT ![c] = Notified(c)]
    <3>1. clientRunning[c] = TRUE
      BY <1>0, <2>3 DEF ClientsOK
    <3>2. \A d \in Clients : d # c => writer'[d] = writer[d]
      BY <1>0, <2>3 DEF ClientsOK
    <3> QED
      BY <2>1, <3>1, <3>2 DEF DownIsLeaving
  <2> QED
    BY <2>1, <2>2, <2>3
<1>9. ASSUME NEW c \in Clients, StopClient(c) PROVE DownIsLeaving'
  <2>1. /\ main = "clients" /\ main' = "notify" /\ at' = c /\ writer' = writer
        /\ clientRunning' = [clientRunning EXCEPT ![c] = FALSE]
    BY <1>9 DEF StopClient, MainStep
  <2> QED
    BY <1>0, <2>1 DEF DownIsLeaving, ClientsOK
<1>10. ASSUME NEW c \in Clients, NotifyWriter(c) PROVE DownIsLeaving'
  <2>1. /\ main = "notify" /\ main' = "joinWriter" /\ at' = c /\ at = c
        /\ writer' = [writer EXCEPT ![c] = Notified(c)] /\ clientRunning' = clientRunning
    BY <1>10 DEF NotifyWriter, MainStep
  <2>2. \A d \in Clients : d # c => writer'[d] = writer[d]
    BY <1>0, <2>1 DEF ClientsOK
  <2> QED
    BY <2>1, <2>2 DEF DownIsLeaving
<1>11. ASSUME NEW c \in Clients, JoinWriter(c) PROVE DownIsLeaving'
  <2>1. at = c /\ writer[c] = "ended" /\ UNCHANGED <<writer, clientRunning>>
    BY <1>11 DEF JoinWriter, ClientsUnchanged
  <2> QED
    BY <2>1 DEF DownIsLeaving, Serving, WriterLives
<1>12. ASSUME NEW c \in Clients, Writer(c) PROVE DownIsLeaving'
  BY <1>0, <1>12, WriterDoes DEF DownIsLeaving
<1> QED
  BY <1>2, <1>3, <1>4, <1>5, <1>6, <1>7, <1>8, <1>9, <1>10, <1>11, <1>12, NextCases

LEMMA ServedStep ==
  ASSUME TypeOK, Locked, DownIsLeaving, Served, Next
  PROVE  Served'
<1> USE DEF serverVars, castVars, mainVars, clientVars, observed
<1>0. ClientsOK /\ ListsOK
  BY TypeParts
<1>1. CASE UNCHANGED <<writer, listed, session>>
  BY <1>1 DEF Served
<1>2. CASE Accepting \/ StartStop
  BY <1>1, <1>2, AcceptingKeeps, StartStopKeeps
<1>3. ASSUME UNCHANGED <<writer, session>>, StillRunning(listed) \subseteq listed',
             main \notin {"notify", "joinWriter"}
      PROVE  Served'
  <2> SUFFICES ASSUME NEW c \in Clients, writer[c] \in Serving, c \in listed PROVE c \in listed'
    BY <1>3 DEF Served
  <2>1. clientRunning[c] = TRUE
    BY <1>0, <1>3 DEF DownIsLeaving, ClientsOK
  <2> QED
    BY <1>3, <2>1 DEF StillRunning
<1>4. CASE ClearConnections
  <2>1. /\ main = "clients" /\ StillRunning(listed) = {} /\ listed' = {}
        /\ UNCHANGED <<writer, session>>
    BY <1>4 DEF ClearConnections, MainStep, MainUnchanged, ClientsUnchanged
  <2> QED
    BY <1>3, <2>1
<1>5. CASE TakeSnapshot \/ EndRound
  <2>1. /\ listed' = StillRunning(listed) /\ UNCHANGED session /\ writer' = writer
        /\ main \notin {"notify", "joinWriter"}
    BY <1>5 DEF TakeSnapshot, EndRound, CastUnchanged, Locked
  <2> QED
    BY <1>3, <2>1
<1>6. CASE CastWakes
  BY <1>1, <1>6 DEF CastWakes, CastUnchanged
<1>7. ASSUME NEW c \in Clients, AcceptWs(c) \/ HandshakeFails(c) PROVE Served'
  <2>1. /\ session[c] # "listing" /\ UNCHANGED <<writer, listed>>
        /\ \E x : session' = [session EXCEPT ![c] = x]
    BY <1>7 DEF AcceptWs, HandshakeFails, ListenerUnchanged, SessionUnchanged, None
  <2> QED
    BY <1>0, <2>1 DEF Served, ClientsOK
<1>8. ASSUME NEW c \in Clients, StartClient(c) PROVE Served'
  <2>1. /\ session' = [session EXCEPT ![c] = "listing"] /\ listed' = listed
        /\ writer' = [writer EXCEPT ![c] = "check"]
    BY <1>8 DEF StartClient
  <2> QED
    BY <1>0, <2>1 DEF Served, ClientsOK
<1>9. ASSUME NEW c \in Clients, ListClient(c) PROVE Served'
  <2>1. /\ session' = [session EXCEPT ![c] = "ended"] /\ listed' = listed \union {c}
        /\ writer' = writer
    BY <1>9 DEF ListClient
  <2> QED
    BY <1>0, <2>1 DEF Served, ClientsOK
<1>10. ASSUME NEW c \in Clients, Peer(c) \/ StopClient(c) \/ JoinWriter(c) PROVE Served'
  BY <1>1, <1>10 DEF Peer, StopClient, JoinWriter, MainUnchanged, ClientsUnchanged
<1>11. ASSUME NEW c \in Clients, NotifyWriter(c) \/ Offer(c) PROVE Served'
  <2>1. /\ writer' = writer \/ writer' = [writer EXCEPT ![c] = Notified(c)]
        /\ UNCHANGED <<session, listed>>
    BY <1>11 DEF NotifyWriter, Offer, MainUnchanged, CastUnchanged
  <2>2. Notified(c) \in Serving => writer[c] \in Serving
    BY DEF Notified, Serving, WriterLives
  <2>3. \A d \in Clients : writer'[d] \in Serving => writer[d] \in Serving
    BY <1>0, <2>1, <2>2 DEF ClientsOK
  <2> QED
    BY <2>1, <2>3 DEF Served
<1>12. ASSUME NEW c \in Clients, Writer(c) PROVE Served'
  BY <1>0, <1>12, WriterDoes DEF Served
<1> QED
  BY <1>2, <1>4, <1>5, <1>6, <1>7, <1>8, <1>9, <1>10, <1>11, <1>12, NextCases

-----------------------------------------------------------------------------
(* Order and freshness.                                                    *)

LEMMA BackOfQueue ==
  ASSUME NEW q \in Seq(Payloads), NEW m \in Payloads
  PROVE  /\ ToSet(Append(q, m)) = ToSet(q) \union {m}
         /\ Increasing(q) /\ Precede(ToSet(q), {m}) => Increasing(Append(q, m))
<1> DEFINE r == Append(q, m)
<1>1. /\ Len(q) \in Nat /\ \A i \in 1..Len(q) : r[i] = q[i]
      /\ r[Len(q) + 1] = m /\ DOMAIN r = 1..Len(q) + 1 /\ DOMAIN q = 1..Len(q)
  OBVIOUS
<1> HIDE DEF r
<1>2. ToSet(r) = ToSet(q) \union {m}
  <2>1. ASSUME NEW n \in ToSet(r) PROVE n \in ToSet(q) \union {m}
    <3>1. PICK i \in 1..Len(q) + 1 : r[i] = n
      BY <1>1, <2>1 DEF ToSet
    <3> QED
      BY <1>1, <3>1 DEF ToSet
  <2>2. ASSUME NEW n \in ToSet(q) PROVE n \in ToSet(r)
    <3>1. PICK i \in 1..Len(q) : q[i] = n
      BY <1>1, <2>2 DEF ToSet
    <3>2. i \in 1..Len(q) + 1 /\ r[i] = n
      BY <1>1, <3>1
    <3> QED
      BY <1>1, <3>2 DEF ToSet
  <2>3. m \in ToSet(r)
    <3>1. Len(q) + 1 \in 1..Len(q) + 1
      BY <1>1
    <3> QED
      BY <1>1, <3>1 DEF ToSet
  <2> QED
    BY <2>1, <2>2, <2>3
<1>3. ASSUME Increasing(q), Precede(ToSet(q), {m}) PROVE Increasing(r)
  <2> SUFFICES ASSUME NEW i \in 1..Len(q) + 1, NEW j \in 1..Len(q) + 1, i < j
               PROVE  r[i] < r[j]
    BY <1>1 DEF Increasing
  <2>1. CASE j \in 1..Len(q)
    BY <1>1, <1>3, <2>1 DEF Increasing
  <2>2. CASE j = Len(q) + 1
    <3>1. i \in 1..Len(q) /\ r[i] = q[i] /\ r[j] = m
      BY <1>1, <2>2
    <3>2. q[i] \in ToSet(q)
      BY <1>1, <3>1 DEF ToSet
    <3> QED
      BY <1>3, <3>1, <3>2 DEF Precede
  <2> QED
    BY <1>1, <2>1, <2>2
<1> QED
  BY <1>2, <1>3 DEF r

LEMMA FrontOfQueue ==
  ASSUME NEW q \in Seq(Payloads), q # <<>>, Increasing(q)
  PROVE  /\ Head(q) \in ToSet(q) /\ Head(q) \in Payloads
         /\ Tail(q) \in Seq(Payloads) /\ Len(Tail(q)) = Len(q) - 1
         /\ ToSet(Tail(q)) = ToSet(q) \ {Head(q)}
         /\ Precede({Head(q)}, ToSet(Tail(q))) /\ Increasing(Tail(q))
<1>1. /\ Len(q) \in Nat /\ Len(q) >= 1 /\ Head(q) = q[1] /\ DOMAIN q = 1..Len(q)
      /\ \A i \in 1..Len(q) : q[i] \in Payloads
  OBVIOUS
<1> DEFINE r == Tail(q)
<1>2. /\ r \in Seq(Payloads) /\ Len(r) = Len(q) - 1 /\ DOMAIN r = 1..Len(q) - 1
      /\ \A i \in 1..Len(q) - 1 : r[i] = q[i + 1]
  BY <1>1
<1> HIDE DEF r
<1>3. \A i \in 1..Len(q), j \in 1..Len(q) : i < j => q[i] < q[j]
  BY <1>1 DEF Increasing
<1>4. 1 \in 1..Len(q) /\ q[1] \in ToSet(q) /\ q[1] \in Payloads
  BY <1>1 DEF ToSet
<1>5. ASSUME NEW n \in ToSet(r) PROVE n \in ToSet(q) /\ q[1] < n
  <2>1. PICK i \in 1..Len(q) - 1 : r[i] = n
    BY <1>2, <1>5 DEF ToSet
  <2>2. i + 1 \in 1..Len(q) /\ 1 < i + 1 /\ q[i + 1] = n
    BY <1>1, <1>2, <2>1
  <2> QED
    BY <1>1, <1>3, <1>4, <2>2 DEF ToSet
<1>6. ASSUME NEW n \in ToSet(q), n # q[1] PROVE n \in ToSet(r)
  <2>1. PICK i \in 1..Len(q) : q[i] = n
    BY <1>1, <1>6 DEF ToSet
  <2>2. i - 1 \in 1..Len(q) - 1 /\ (i - 1) + 1 = i
    BY <1>1, <1>6, <2>1
  <2>3. r[i - 1] = n
    BY <1>2, <2>1, <2>2
  <2> QED
    BY <1>2, <2>2, <2>3 DEF ToSet
<1>7. ToSet(r) = ToSet(q) \ {q[1]}
  <2>1. \A n \in ToSet(r) : n # q[1]
    BY <1>4, <1>5 DEF Payloads
  <2> QED
    BY <1>5, <1>6, <2>1
<1>8. Increasing(r)
  <2> SUFFICES ASSUME NEW i \in 1..Len(q) - 1, NEW j \in 1..Len(q) - 1, i < j PROVE r[i] < r[j]
    BY <1>2 DEF Increasing
  <2>1. i + 1 \in 1..Len(q) /\ j + 1 \in 1..Len(q) /\ i + 1 < j + 1
    BY <1>1
  <2> QED
    BY <1>2, <1>3, <2>1
<1> QED
  BY <1>1, <1>2, <1>4, <1>5, <1>7, <1>8 DEF r, Precede

(* A queue in order holds as many payloads as it is long.                  *)
LEMMA CountQueue ==
  ASSUME NEW q \in Seq(Payloads), Increasing(q)
  PROVE  IsFiniteSet(ToSet(q)) /\ Cardinality(ToSet(q)) = Len(q)
<1>1. /\ Len(q) \in Nat /\ DOMAIN q = 1..Len(q) /\ q \in [1..Len(q) -> ToSet(q)]
      /\ \A i \in 1..Len(q) : q[i] \in Payloads
  BY DEF ToSet
<1>2. \A i, j \in 1..Len(q) : q[i] = q[j] => i = j
  <2> SUFFICES ASSUME NEW i \in 1..Len(q), NEW j \in 1..Len(q), q[i] = q[j], i # j PROVE FALSE
    OBVIOUS
  <2>1. q[i] \in Nat /\ (i < j \/ j < i)
    BY <1>1 DEF Payloads
  <2> QED
    BY <1>1, <2>1 DEF Increasing
<1>3. \A n \in ToSet(q) : \E i \in 1..Len(q) : q[i] = n
  BY <1>1 DEF ToSet
<1>4. q \in Bijection(1..Len(q), ToSet(q))
  BY <1>1, <1>2, <1>3 DEF Bijection, Injection, Surjection, IsInjective
<1>5. ExistsBijection(1..Len(q), ToSet(q))
  BY <1>4 DEF ExistsBijection
<1>6. IsFiniteSet(1..Len(q)) /\ Cardinality(1..Len(q)) = Len(q)
  BY <1>1, FS_Interval
<1> QED
  BY <1>5, <1>6, FS_Bijection

(* What enqueue pushes out is older than the MaxPending payloads it leaves.*)
LEMMA PushedOut ==
  ASSUME NEW q \in Seq(Payloads), NEW m \in Payloads, Len(q) <= MaxPending,
         Increasing(q), Precede(ToSet(q), {m})
  PROVE  LET r == Enqueued(q, m)
         IN  /\ r \in Seq(Payloads) /\ Increasing(r)
             /\ ToSet(r) \subseteq ToSet(q) \union {m} /\ m \in ToSet(r)
             /\ \A n \in ToSet(q) \ ToSet(r) :
                   Cardinality(ToSet(r)) = MaxPending /\ Precede({n}, ToSet(r))
<1>0. MaxPending \in Nat /\ MaxPending >= 1 /\ Len(q) \in Nat
  BY ControlServerAssumption
<1>1. CASE Len(q) >= MaxPending
  <2>1. q # <<>> /\ Enqueued(q, m) = Append(Tail(q), m)
    BY <1>0, <1>1 DEF Enqueued
  <2>2. PICK p : p = Tail(q)
    OBVIOUS
  <2>3. PICK h : h = Head(q)
    OBVIOUS
  <2>4. /\ h \in ToSet(q) /\ p \in Seq(Payloads) /\ Len(p) = Len(q) - 1
        /\ ToSet(p) = ToSet(q) \ {h} /\ Precede({h}, ToSet(p)) /\ Increasing(p)
    BY <2>1, <2>2, <2>3, FrontOfQueue
  <2>5. PICK r : r = Append(p, m)
    OBVIOUS
  <2>6. Precede(ToSet(p), {m})
    BY <2>4 DEF Precede
  <2>7. ToSet(r) = ToSet(p) \union {m} /\ Increasing(r)
    BY <2>4, <2>5, <2>6, BackOfQueue
  <2>8. r \in Seq(Payloads) /\ Len(r) = MaxPending
    BY <1>0, <1>1, <2>4, <2>5
  <2>9. Cardinality(ToSet(r)) = MaxPending
    BY <2>7, <2>8, CountQueue
  <2>10. Precede({h}, ToSet(r))
    BY <2>4, <2>7 DEF Precede
  <2>11. \A n \in ToSet(q) \ ToSet(r) : n = h
    BY <2>4, <2>7
  <2>12. r = Enqueued(q, m)
    BY <2>1, <2>2, <2>5
  <2> QED
    BY <2>4, <2>7, <2>8, <2>9, <2>10, <2>11, <2>12
<1>2. CASE Len(q) < MaxPending
  <2>1. Enqueued(q, m) = Append(q, m) /\ Append(q, m) \in Seq(Payloads)
    BY <1>0, <1>2 DEF Enqueued
  <2>2. ToSet(Append(q, m)) = ToSet(q) \union {m} /\ Increasing(Append(q, m))
    BY BackOfQueue
  <2> QED
    BY <2>1, <2>2
<1> QED
  BY <1>0, <1>1, <1>2

LEMMA MoreOffers ==
  ASSUME NEW T \in SUBSET Payloads, NEW S \in SUBSET T
  PROVE  Cardinality(S) \in Nat /\ Cardinality(T) \in Nat /\ Cardinality(S) <= Cardinality(T)
<1>1. IsFiniteSet(Payloads)
  BY ControlServerAssumption, FS_Interval DEF Payloads
<1>2. IsFiniteSet(T)
  BY <1>1, FS_Subset
<1> QED
  BY <1>2, FS_Subset, FS_CardinalityType

(* FreshInOrder and Numbered, client by client.                            *)
Orderly(c) ==
    /\ Increasing(wire[c]) /\ Increasing(pending[c])
    /\ Precede(ToSet(wire[c]), Held(c) \union ToSet(pending[c]))
    /\ Precede(Held(c), ToSet(pending[c]))
Fresh(c) ==
    clientRunning[c] = TRUE =>
        \A m \in offers[c] \ Sent(c) : Cardinality({n \in offers[c] : n > m}) >= MaxPending
NumberedOf(c) ==
    /\ Sent(c) \subseteq offers[c] /\ offers[c] \subseteq 1..tick
    /\ c \in todo => tick >= 1 /\ tick \notin offers[c]

LEMMA StreamParts ==
  ASSUME ClientsOK
  PROVE  FreshInOrder /\ Numbered <=> \A c \in Clients : Orderly(c) /\ Fresh(c) /\ NumberedOf(c)
<1>1. \A c \in Clients : clientRunning[c] <=> clientRunning[c] = TRUE
  BY DEF ClientsOK
<1> QED
  BY <1>1 DEF FreshInOrder, Numbered, Orderly, Fresh, NumberedOf

LEMMA StreamPartsNext ==
  ASSUME ClientsOK'
  PROVE  (FreshInOrder /\ Numbered)' <=>
            \A c \in Clients : Orderly(c)' /\ Fresh(c)' /\ NumberedOf(c)'
<1>1. \A c \in Clients : clientRunning'[c] <=> clientRunning'[c] = TRUE
  BY DEF ClientsOK
<1> QED
  BY <1>1 DEF FreshInOrder, Numbered, Orderly, Fresh, NumberedOf

(* Nothing that concerns client c, but that its flag may go down.          *)
LEMMA StreamStays ==
  ASSUME NEW c, Orderly(c), Fresh(c),
         wire'[c] = wire[c], hand'[c] = hand[c], pending'[c] = pending[c],
         offers'[c] = offers[c], clientRunning'[c] = clientRunning[c] \/ clientRunning'[c] = FALSE
  PROVE  Orderly(c)' /\ Fresh(c)' /\ Sent(c)' = Sent(c)
<1>1. Held(c)' = Held(c) /\ Sent(c)' = Sent(c)
  BY DEF Held, Sent
<1> QED
  BY <1>1 DEF Orderly, Fresh

LEMMA StreamStep ==
  ASSUME TypeOK, ClientsOK', FreshInOrder, Numbered, Next
  PROVE  FreshInOrder' /\ Numbered'
<1> USE DEF serverVars, castVars, mainVars, clientVars, observed
<1>0. ListsOK /\ ClientsOK
  BY TypeParts
<1> SUFFICES ASSUME NEW d \in Clients PROVE Orderly(d)' /\ Fresh(d)' /\ NumberedOf(d)'
  BY StreamPartsNext
<1>1. Orderly(d) /\ Fresh(d) /\ NumberedOf(d)
  BY <1>0, StreamParts
<1> DEFINE Goal == Orderly(d)' /\ Fresh(d)' /\ NumberedOf(d)'
           Same == /\ wire'[d] = wire[d] /\ hand'[d] = hand[d] /\ pending'[d] = pending[d]
                   /\ offers'[d] = offers[d]
                   /\ clientRunning'[d] = clientRunning[d] \/ clientRunning'[d] = FALSE
<1>2. ASSUME Same, tick' = tick, todo' \subseteq todo PROVE Goal
  BY <1>1, <1>2, StreamStays DEF NumberedOf
<1>3. CASE Accepting \/ StartStop
  BY <1>2, <1>3, AcceptingKeeps, StartStopKeeps
<1>4. CASE ClearConnections \/ CastWakes \/ EndRound
  BY <1>2, <1>4 DEF ClearConnections, MainUnchanged, ClientsUnchanged, CastWakes, EndRound,
                    CastUnchanged
<1>5. CASE TakeSnapshot
  <2>1. Same
    BY <1>5 DEF TakeSnapshot, CastUnchanged
  <2>2. Orderly(d)' /\ Fresh(d)' /\ Sent(d)' = Sent(d)
    BY <1>1, <2>1, StreamStays
  <2>3. CASE tick < MaxTicks
    <3>1. tick' = tick + 1 /\ tick \in Nat
      BY <1>0, <1>5, <2>3 DEF TakeSnapshot, ListsOK
    <3>2. NumberedOf(d)'
      BY <1>1, <2>1, <2>2, <3>1 DEF NumberedOf
    <3> QED
      BY <2>2, <3>2
  <2>4. CASE ~(tick < MaxTicks)
    <3>1. tick' = tick /\ todo' = {}
      BY <1>5, <2>4 DEF TakeSnapshot
    <3> QED
      BY <1>2, <2>1, <3>1
  <2> QED
    BY <2>3, <2>4
<1>6. ASSUME NEW c \in Clients,
             AcceptWs(c) \/ HandshakeFails(c) \/ StartClient(c) \/ ListClient(c) \/ Peer(c)
      PROVE  Goal
  BY <1>2, <1>6 DEF AcceptWs, HandshakeFails, StartClient, ListClient, Peer, ListenerUnchanged,
                    SessionUnchanged
<1>7. ASSUME NEW c \in Clients, StopClient(c) \/ NotifyWriter(c) \/ JoinWriter(c) PROVE Goal
  <2>1. UNCHANGED <<wire, hand, pending, offers, tick, todo>>
    BY <1>7 DEF StopClient, NotifyWriter, JoinWriter, MainUnchanged
  <2>2. clientRunning' = clientRunning \/ clientRunning' = [clientRunning EXCEPT ![c] = FALSE]
    BY <1>7 DEF StopClient, NotifyWriter, JoinWriter, ClientsUnchanged
  <2>3. clientRunning'[d] = clientRunning[d] \/ clientRunning'[d] = FALSE
    BY <1>0, <2>2 DEF ClientsOK
  <2> QED
    BY <1>2, <2>1, <2>3
<1>8. ASSUME NEW c \in Clients, Offer(c) PROVE Goal
  <2>0. UNCHANGED <<wire, hand, clientRunning, tick>> /\ todo' = todo \ {c} /\ c \in todo
    BY <1>8 DEF Offer, CastUnchanged
  <2>1. CASE UNCHANGED <<pending, offers>>
    BY <1>2, <2>0, <2>1
  <2>2. CASE /\ pending' = [pending EXCEPT ![c] = Enqueued(@, tick)]
             /\ offers' = [offers EXCEPT ![c] = @ \union {tick}]
    <3>1. CASE c # d
      <4>1. pending'[d] = pending[d] /\ offers'[d] = offers[d]
        BY <1>0, <2>2, <3>1 DEF ClientsOK
      <4> QED
        BY <1>2, <2>0, <4>1
    <3>2. CASE c = d
      <4>1. PICK q, r, h, W :
               q = pending[d] /\ r = Enqueued(q, tick) /\ h = Held(d) /\ W = ToSet(wire[d])
        OBVIOUS
      <4>2. /\ pending'[d] = r /\ offers'[d] = offers[d] \union {tick} /\ tick \notin offers[d]
            /\ tick >= 1 /\ offers[d] \subseteq Payloads /\ d \notin todo'
        BY <1>0, <1>1, <2>0, <2>2, <3>2, <4>1 DEF ClientsOK, NumberedOf
      <4>3. tick \in Payloads /\ offers[d] \subseteq 1..tick /\ Sent(d) \subseteq offers[d]
        BY <1>0, <1>1, <4>2 DEF NumberedOf, ListsOK, Payloads
      <4>4. \A n \in offers[d] : n < tick
        BY <4>2, <4>3 DEF Payloads
      <4>5. Sent(d) = W \union h \union ToSet(q)
        BY <4>1 DEF Sent
      <4>6. Precede(W \union h \union ToSet(q), {tick})
        BY <4>3, <4>4, <4>5 DEF Precede
      <4>7. q \in Seq(Payloads) /\ Len(q) <= MaxPending /\ Increasing(q)
        BY <1>0, <1>1, <4>1 DEF ClientsOK, Orderly
      <4>8. Precede(ToSet(q), {tick})
        BY <4>6 DEF Precede
      <4>9. /\ r \in Seq(Payloads) /\ Increasing(r)
            /\ ToSet(r) \subseteq ToSet(q) \union {tick} /\ tick \in ToSet(r)
            /\ \A n \in ToSet(q) \ ToSet(r) :
                  Cardinality(ToSet(r)) = MaxPending /\ Precede({n}, ToSet(r))
        BY <4>1, <4>3, <4>7, <4>8, PushedOut
      <4>10. /\ Held(d)' = h /\ ToSet(wire[d])' = W /\ Sent(d)' = W \union h \union ToSet(r)
        BY <2>0, <4>1, <4>2 DEF Held, Sent
      <4>11. Orderly(d)'
        <5>1. Increasing(wire[d]) /\ Precede(W, h \union ToSet(q)) /\ Precede(h, ToSet(q))
          BY <1>1, <4>1 DEF Orderly
        <5>2. Precede(W, h \union ToSet(r)) /\ Precede(h, ToSet(r))
          BY <4>6, <4>9, <5>1 DEF Precede
        <5> QED
          BY <2>0, <4>2, <4>9, <4>10, <5>1, <5>2 DEF Orderly
      <4>12. NumberedOf(d)'
        <5>1. Sent(d)' \subseteq offers'[d]
          BY <4>2, <4>3, <4>5, <4>9, <4>10
        <5>2. tick \in 1..tick
          BY <4>3 DEF Payloads
        <5>3. offers'[d] \subseteq 1..tick
          BY <4>2, <4>3, <5>2
        <5> QED
          BY <2>0, <4>2, <5>1, <5>3 DEF NumberedOf
      <4>13. Fresh(d)'
        <5> SUFFICES ASSUME clientRunning[d] = TRUE, NEW m \in offers'[d] \ Sent(d)'
                     PROVE  Cardinality({n \in offers'[d] : n > m}) >= MaxPending
          BY <2>0 DEF Fresh
        <5>1. m \in offers[d] /\ offers'[d] \subseteq Payloads /\ m \in Payloads
          BY <4>2, <4>3, <4>9, <4>10
        <5>2. CASE m \notin Sent(d)
          <6>1. Cardinality({n \in offers[d] : n > m}) >= MaxPending
            BY <1>1, <5>1, <5>2 DEF Fresh
          <6>2. /\ {n \in offers'[d] : n > m} \in SUBSET Payloads
                /\ {n \in offers[d] : n > m} \in SUBSET {n \in offers'[d] : n > m}
            BY <4>2, <5>1
          <6>3. /\ Cardinality({n \in offers[d] : n > m}) <= Cardinality({n \in offers'[d] : n > m})
                /\ Cardinality({n \in offers[d] : n > m}) \in Nat
                /\ Cardinality({n \in offers'[d] : n > m}) \in Nat
            BY <6>2, MoreOffers
          <6> QED
            BY <6>1, <6>3, ControlServerAssumption
        <5>3. CASE m \in Sent(d)
          <6>1. m \in ToSet(q) \ ToSet(r)
            BY <4>5, <4>10, <5>3
          <6>2. Cardinality(ToSet(r)) = MaxPending /\ Precede({m}, ToSet(r))
            BY <4>9, <6>1
          <6>3. ToSet(r) \subseteq offers'[d]
            BY <4>2, <4>3, <4>5, <4>9
          <6>4. \A n \in ToSet(r) : n > m
            BY <5>1, <6>2, <6>3 DEF Precede, Payloads
          <6>5. /\ {n \in offers'[d] : n > m} \in SUBSET Payloads
                /\ ToSet(r) \in SUBSET {n \in offers'[d] : n > m}
            BY <5>1, <6>3, <6>4
          <6>6. /\ Cardinality(ToSet(r)) <= Cardinality({n \in offers'[d] : n > m})
                /\ Cardinality({n \in offers'[d] : n > m}) \in Nat
            BY <6>5, MoreOffers
          <6> QED
            BY <6>2, <6>6, ControlServerAssumption
        <5> QED
          BY <5>2, <5>3
      <4> QED
        BY <4>11, <4>12, <4>13
    <3> QED
      BY <3>1, <3>2
  <2> QED
    BY <1>8, <2>1, <2>2 DEF Offer
<1>9. ASSUME NEW c \in Clients, Writer(c) PROVE Goal
  <2> USE DEF WriterUnchanged, WriterStep
  <2>1. CASE LoopCheck(c) \/ Park(c) \/ Leave(c)
    BY <1>2, <2>1 DEF LoopCheck, Park, Leave
  <2>2. CASE CloseSocket(c)
    <3>1. /\ clientRunning' = [clientRunning EXCEPT ![c] = FALSE]
          /\ UNCHANGED <<wire, hand, pending, offers, tick, todo>>
      BY <2>2 DEF CloseSocket
    <3>2. clientRunning'[d] = clientRunning[d] \/ clientRunning'[d] = FALSE
      BY <1>0, <3>1 DEF ClientsOK
    <3> QED
      BY <1>2, <3>1, <3>2
  <2>3. CASE WriteFails(c)
    <3>1. /\ clientRunning' = [clientRunning EXCEPT ![c] = FALSE] /\ hand' = [hand EXCEPT ![c] = 0]
          /\ UNCHANGED <<wire, pending, offers, tick, todo>>
      BY <2>3 DEF WriteFails
    <3>2. CASE c # d
      <4>1. clientRunning'[d] = clientRunning[d] /\ hand'[d] = hand[d]
        BY <1>0, <3>1, <3>2, ZenonT(60) DEF ClientsOK
      <4> QED
        BY <1>2, <3>1, <4>1
    <3>3. CASE c = d
      <4>1. clientRunning'[d] = FALSE /\ hand'[d] = 0
        BY <1>0, <3>1, <3>3 DEF ClientsOK
      <4>2. Held(d)' = {} /\ Sent(d)' \subseteq Sent(d)
        BY <3>1, <4>1 DEF Held, Sent
      <4>3. Orderly(d)'
        BY <1>1, <3>1, <4>2 DEF Orderly, Precede
      <4>4. Fresh(d)'
        BY <4>1 DEF Fresh
      <4>5. NumberedOf(d)'
        BY <1>1, <3>1, <4>2 DEF NumberedOf
      <4> QED
        BY <4>3, <4>4, <4>5
    <3> QED
      BY <3>2, <3>3
  <2>4. CASE WriteSucceeds(c)
    <3>1. /\ wire' = [wire EXCEPT ![c] = Append(@, hand[c])] /\ hand' = [hand EXCEPT ![c] = 0]
          /\ writer[c] = "write" /\ UNCHANGED <<clientRunning, pending, offers, tick, todo>>
      BY <2>4 DEF WriteSucceeds
    <3>2. CASE c # d
      <4>1. wire'[d] = wire[d] /\ hand'[d] = hand[d]
        BY <1>0, <3>1, <3>2 DEF ClientsOK
      <4> QED
        BY <1>2, <3>1, <4>1
    <3>3. CASE c = d
      <4>1. PICK q, m : q = wire[d] /\ m = hand[d]
        OBVIOUS
      <4>2. m \in Payloads /\ m # 0 /\ q \in Seq(Payloads)
        BY <1>0, <3>1, <3>3, <4>1 DEF ClientsOK
      <4>3. wire'[d] = Append(q, m) /\ hand'[d] = 0
        BY <1>0, <3>1, <3>3, <4>1 DEF ClientsOK
      <4>4. /\ Increasing(q) /\ Increasing(pending[d])
            /\ Precede(ToSet(q), {m} \union ToSet(pending[d])) /\ Precede({m}, ToSet(pending[d]))
            /\ Sent(d) = ToSet(q) \union {m} \union ToSet(pending[d])
        <5>1. Held(d) = {m}
          BY <4>1, <4>2 DEF Held
        <5> QED
          BY <1>1, <4>1, <5>1 DEF Orderly, Sent
      <4>5. Precede(ToSet(q), {m})
        BY <4>4 DEF Precede
      <4>6. ToSet(Append(q, m)) = ToSet(q) \union {m} /\ Increasing(Append(q, m))
        BY <4>2, <4>4, <4>5, BackOfQueue
      <4>7. Held(d)' = {} /\ Sent(d)' = Sent(d)
        BY <3>1, <4>3, <4>4, <4>6 DEF Held, Sent
      <4>8. Orderly(d)'
        BY <3>1, <4>3, <4>4, <4>6, <4>7 DEF Orderly, Precede
      <4>9. Fresh(d)' /\ NumberedOf(d)'
        BY <1>1, <3>1, <4>7 DEF Fresh, NumberedOf
      <4> QED
        BY <4>8, <4>9
    <3> QED
      BY <3>2, <3>3
  <2>5. CASE TestPredicate(c)
    <3>0. writer[c] = "pred" /\ UNCHANGED <<wire, offers, clientRunning, tick, todo>>
      BY <2>5 DEF TestPredicate
    <3>1. CASE UNCHANGED <<pending, hand>>
      BY <1>2, <3>0, <3>1
    <3>2. CASE /\ pending[c] # <<>> /\ hand' = [hand EXCEPT ![c] = Head(pending[c])]
               /\ pending' = [pending EXCEPT ![c] = Tail(@)]
      <4>1. CASE c # d
        <5>1. pending'[d] = pending[d] /\ hand'[d] = hand[d]
          BY <1>0, <3>2, <4>1 DEF ClientsOK
        <5> QED
          BY <1>2, <3>0, <5>1
      <4>2. CASE c = d
        <5>1. PICK q, h : q = pending[d] /\ h = Head(pending[d])
          OBVIOUS
        <5>2. /\ q \in Seq(Payloads) /\ q # <<>> /\ hand[d] = 0
              /\ pending'[d] = Tail(q) /\ hand'[d] = h
          BY <1>0, <3>0, <3>2, <4>2, <5>1 DEF ClientsOK
        <5>3. /\ Increasing(wire[d]) /\ Increasing(q) /\ Precede(ToSet(wire[d]), ToSet(q))
              /\ Sent(d) = ToSet(wire[d]) \union ToSet(q)
          BY <1>1, <5>1, <5>2 DEF Orderly, Held, Sent
        <5>4. /\ h \in ToSet(q) /\ h \in Payloads
              /\ ToSet(Tail(q)) = ToSet(q) \ {h}
              /\ Precede({h}, ToSet(Tail(q))) /\ Increasing(Tail(q))
          BY <5>1, <5>2, <5>3, FrontOfQueue
        <5>5. Held(d)' = {h} /\ Sent(d)' = Sent(d)
          <6>1. h # 0
            BY <5>4 DEF Payloads
          <6> QED
            BY <3>0, <5>2, <5>3, <5>4, <6>1 DEF Held, Sent
        <5>6. Orderly(d)'
          BY <3>0, <5>2, <5>3, <5>4, <5>5 DEF Orderly, Precede
        <5>7. Fresh(d)' /\ NumberedOf(d)'
          BY <1>1, <3>0, <5>5 DEF Fresh, NumberedOf
        <5> QED
          BY <5>6, <5>7
      <4> QED
        BY <4>1, <4>2
    <3> QED
      BY <2>5, <3>1, <3>2 DEF TestPredicate
  <2> QED
    BY <1>9, <2>1, <2>2, <2>3, <2>4, <2>5 DEF Writer
<1> QED
  BY <1>3, <1>4, <1>5, <1>6, <1>7, <1>8, <1>9, NextCases

-----------------------------------------------------------------------------
(* The invariant.                                                          *)

LEMMA InitIInv == Init => IInv
<1> SUFFICES ASSUME Init PROVE IInv
  OBVIOUS
<1> USE DEF Init
<1>1. ServerOK
  BY DEF ServerOK, Listeners
<1>2. ListsOK
  BY ControlServerAssumption DEF ListsOK
<1>3. ClientsOK
  <2>1. \A c \in Clients : Len(pending[c]) <= MaxPending
    BY ControlServerAssumption
  <2>2. /\ pending \in [Clients -> Seq(Payloads)] /\ wire \in [Clients -> Seq(Payloads)]
        /\ hand \in [Clients -> Payloads \union {0}] /\ offers \in [Clients -> SUBSET Payloads]
    OBVIOUS
  <2>3. \A c \in Clients : hand[c] # 0 <=> writer[c] = "write"
    BY DEF None
  <2> QED
    BY <2>1, <2>2, <2>3 DEF ClientsOK
<1>4. Locked /\ Untouched /\ DownIsLeaving /\ Served
  BY DEF Locked, Untouched, DownIsLeaving, Served, Serving, WriterLives, None
<1>5. ASSUME NEW c \in Clients PROVE Orderly(c) /\ Fresh(c) /\ NumberedOf(c)
  <2>1. wire[c] = <<>> /\ pending[c] = <<>> /\ hand[c] = 0 /\ offers[c] = {} /\ c \notin todo
    OBVIOUS
  <2>2. ToSet(<<>>) = {} /\ Increasing(<<>>)
    BY DEF ToSet, Increasing
  <2>3. Held(c) = {} /\ Sent(c) = {}
    BY <2>1, <2>2 DEF Held, Sent
  <2> QED
    BY <2>1, <2>2, <2>3 DEF Orderly, Fresh, NumberedOf, Precede
<1>6. FreshInOrder /\ Numbered
  BY <1>3, <1>5, StreamParts
<1> QED
  BY <1>1, <1>2, <1>3, <1>4, <1>6, TypeParts DEF IInv

LEMMA NextIInv == IInv /\ [Next]_vars => IInv'
<1>1. ASSUME IInv, Next PROVE IInv'
  <2>1. ServerOK /\ ListsOK /\ ClientsOK
    BY <1>1, TypeParts DEF IInv
  <2>2. ServerOK' /\ ListsOK' /\ ClientsOK'
    BY <1>1, <2>1, ServerStep, ListsStep, ClientsStep DEF IInv
  <2>3. TypeOK'
    BY <2>2, TypeParts
  <2>4. Locked' /\ Untouched' /\ DownIsLeaving' /\ Served'
    BY <1>1, <2>1, LockedStep, UntouchedStep, DownIsLeavingStep, ServedStep DEF IInv
  <2>5. FreshInOrder' /\ Numbered'
    BY <1>1, <2>2, StreamStep DEF IInv
  <2> QED
    BY <2>3, <2>4, <2>5 DEF IInv
<1>2. ASSUME IInv, UNCHANGED vars PROVE IInv'
  <2> USE <1>2 DEF IInv, vars, serverVars, castVars, mainVars, clientVars, observed
  <2>1. TypeOK'
    BY DEF TypeOK
  <2>2. Locked' /\ Untouched' /\ DownIsLeaving' /\ Served'
    BY DEF Locked, Untouched, DownIsLeaving, Served
  <2>3. FreshInOrder' /\ Numbered'
    BY ZenonT(60) DEF FreshInOrder, Numbered, Held, Sent
  <2> QED
    BY <2>1, <2>2, <2>3
<1> QED
  BY <1>1, <1>2

LEMMA Inductive == Spec => []IInv
  BY InitIInv, NextIInv, PTL DEF Spec

-----------------------------------------------------------------------------
(* Every variable keeps its type: no client's queue outgrows               *)
(* max_pending_messages, and a writer has a payload in hand exactly while  *)
(* it writes.                                                              *)
THEOREM TypeCorrect == Spec => []TypeOK
<1>1. IInv => TypeOK
  BY DEF IInv
<1> QED
  BY <1>1, Inductive, PTL

(* Whatever the pace of the broadcasts, of the clients and of their        *)
(* writers: a client gets payloads in the order of the broadcasts, none    *)
(* twice, and misses one only if enqueue has queued max_pending_messages   *)
(* newer ones since.                                                       *)
THEOREM StaysFresh == Spec => []FreshInOrder
<1>1. IInv => FreshInOrder
  BY DEF IInv
<1> QED
  BY <1>1, Inductive, PTL

(* When ControlServer::stop has returned, the only clients still served    *)
(* are those a session thread listed, or is about to list, after the list  *)
(* was cleared.                                                            *)
THEOREM StopCloses == Spec => []StopClosesListed
<1>1. IInv => StopClosesListed
  BY DEF IInv, Served, Serving, StopClosesListed
<1> QED
  BY <1>1, Inductive, PTL

=============================================================================
