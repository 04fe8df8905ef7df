--------------------------- MODULE PublisherProofs ---------------------------
(***************************************************************************)
(* Proofs about Publisher, for any clients, limits and watermarks: its     *)
(* types, the connection limit, that joins of write threads are sound, that *)
(* a stopped connection is taken up by no sender again, and what alone can *)
(* bring the process down.                                                 *)
(***************************************************************************)
EXTENDS Publisher, FiniteSetTheorems, TLAPS

-----------------------------------------------------------------------------
(* The inductive invariant.                                                *)

(* The accept handler finds a fresh connection; the write thread has       *)
(* failed less often than the limit while it is in its loop, and as often  *)
(* as the limit, for a client that has gone, when it joins itself.         *)
Breaker ==
    \A c \in Clients :
        /\ peer[c] = "absent" => writer[c] = "none"
        /\ writer[c] \in {"none", "loop"} => failures[c] < MaxWriteFailures
        /\ writer[c] = "selfJoin" => peer[c] = "gone" /\ failures[c] = MaxWriteFailures

(* running_ is cleared and socket_ closed together, by whoever stops.      *)
OpenIsRunning == \A c \in Clients : socket[c] = running[c]

(* A join of a write thread waits for a thread that was started, that is   *)
(* not joining itself and that sees running_ cleared, and one thread only  *)
(* waits in it.                                                            *)
JoinsSound ==
    \A c \in Clients :
        /\ running[c] => writer[c] = "loop"
        /\ reader[c] = "joining" => ~running[c] /\ writer[c] \in {"loop", "done"}
        /\ c \in joining => /\ ~running[c] /\ writer[c] \in {"loop", "done"}
                            /\ reader[c] # "joining"

(* clients_mutex_ has one holder: stop while it goes through clients_, the *)
(* heartbeat thread while it sends; stop has not begun while the server is *)
(* up.                                                                     *)
MutexHeld ==
    /\ up => serverPc = "running"
    /\ mutex = "stop" <=> serverPc = "clients"
    /\ mutex = "heartbeat" <=> beatPc = "send"

(* clients_ never holds more than MAX_CONNECTIONS connections.             *)
WithinLimit == Cardinality(clients) <= MaxConnections

(* std::terminate is reached in one way only: the write thread of a        *)
(* connection whose other end has gone failed MAX_CONSECUTIVE_FAILURES     *)
(* times in a row, stopped the connection itself and joins itself.         *)
AbortEarned ==
    aborted => \E c \in Clients :
                   /\ peer[c] = "gone" /\ failures[c] = MaxWriteFailures
                   /\ writer[c] = "selfJoin" /\ ~running[c]

IInv ==
    /\ TypeOK /\ Breaker /\ OpenIsRunning /\ JoinsSound /\ MutexHeld /\ WithinLimit /\ AbortEarned

-----------------------------------------------------------------------------
LEMMA InitHolds == Init => IInv
<1> SUFFICES ASSUME Init PROVE IInv
  OBVIOUS
<1>1. TypeOK
  <2>1. 0 \in 0..MaxWriteFailures
    BY ConstantsAssumption
  <2>2. failures \in [Clients -> 0..MaxWriteFailures]
    BY <2>1 DEF Init
  <2>3. /\ depth \in [Clients -> Nat] /\ hold \in [Clients -> Nat]
        /\ writer \in [Clients -> {"none", "loop", "selfJoin", "done"}]
        /\ peer \in [Clients -> {"absent", "connected", "gone"}]
        /\ reader \in [Clients -> {"none", "reading", "joining", "done"}]
    BY DEF Init
  <2>4. /\ socket \in [Clients -> BOOLEAN] /\ running \in [Clients -> BOOLEAN]
        /\ authenticated \in [Clients -> BOOLEAN] /\ subscribed \in [Clients -> BOOLEAN]
    BY DEF Init
  <2>5. /\ up \in BOOLEAN /\ io \in BOOLEAN /\ waiting \in BOOLEAN /\ aborted \in BOOLEAN
        /\ mutex = "free" /\ serverPc = "running" /\ pubPc = "idle" /\ beatPc = "sleep"
        /\ clients = {} /\ toStop = {} /\ joining = {} /\ events = 0
    BY DEF Init
  <2>6. todo \in [Senders -> SUBSET Clients] /\ sending \in [Senders -> SUBSET Clients]
    BY DEF Init
  <2> QED
    BY <2>2, <2>3, <2>4, <2>5, <2>6 DEF TypeOK
<1>2. Breaker /\ OpenIsRunning /\ JoinsSound /\ MutexHeld
  BY ConstantsAssumption DEF Init, Breaker, OpenIsRunning, JoinsSound, MutexHeld
<1>3. WithinLimit
  BY FS_EmptySet, ConstantsAssumption DEF Init, WithinLimit
<1>4. AbortEarned
  BY DEF Init, AbortEarned
<1> QED
  BY <1>1, <1>2, <1>3, <1>4 DEF IInv

(* Every step keeps the types.                                             *)
LEMMA TypeStep == TypeOK /\ Breaker /\ [Next]_vars => TypeOK'
<1> SUFFICES ASSUME TypeOK, Breaker, [Next]_vars PROVE TypeOK'
  OBVIOUS
<1> USE ConstantsAssumption
<1>0. ASSUME Event PROVE events' \in Nat
  BY <1>0 DEF Event, TypeOK
<1>1. ASSUME NEW c \in Clients, Accept(c) PROVE TypeOK'
  BY <1>1 DEF Accept, TypeOK, sendVars
<1>2. ASSUME NEW c \in Clients, Leave(c) PROVE TypeOK'
  <2>1. peer' \in [Clients -> {"absent", "connected", "gone"}]
    BY <1>2 DEF Leave, TypeOK
  <2> QED
    BY <1>0, <1>2, <2>1 DEF Leave, TypeOK, serverVars, sendVars
<1>3. ASSUME NEW c \in Clients, Reads(c)
      PROVE  /\ events' \in Nat
             /\ UNCHANGED <<serverVars, peer, writer, hold, failures, sendVars, aborted>>
  BY <1>0, <1>3 DEF Reads
<1>4. ASSUME NEW c \in Clients, Acknowledge(c) PROVE depth' \in [Clients -> Nat]
  BY <1>4 DEF Acknowledge, TypeOK
<1>5. ASSUME NEW c \in Clients, StopByReader(c)
      PROVE  /\ socket' \in [Clients -> BOOLEAN] /\ running' \in [Clients -> BOOLEAN]
             /\ reader' \in [Clients -> {"none", "reading", "joining", "done"}]
  BY <1>5 DEF StopByReader, TypeOK
<1>6. ASSUME NEW c \in Clients, Authenticate(c) PROVE TypeOK'
  <2>1. authenticated' \in [Clients -> BOOLEAN] /\ depth' \in [Clients -> Nat]
    BY <1>4, <1>6 DEF Authenticate, TypeOK
  <2> QED
    BY <1>3, <1>6, <2>1 DEF Authenticate, TypeOK, serverVars, sendVars
<1>7. ASSUME NEW c \in Clients, Subscribe(c) \/ Unsubscribe(c) PROVE TypeOK'
  <2>1. subscribed' \in [Clients -> BOOLEAN]
    BY <1>7 DEF Subscribe, Unsubscribe, TypeOK
  <2>2. depth' \in [Clients -> Nat] /\ UNCHANGED <<socket, running, authenticated, reader>>
    BY <1>4, <1>7 DEF Subscribe, Unsubscribe
  <2>3. /\ events' \in Nat
        /\ UNCHANGED <<serverVars, peer, writer, hold, failures, sendVars, aborted>>
    BY <1>3, <1>7 DEF Subscribe, Unsubscribe
  <2> QED
    BY <2>1, <2>2, <2>3 DEF TypeOK, serverVars, sendVars
<1>8. ASSUME NEW c \in Clients, BadToken(c) PROVE TypeOK'
  <2>1. depth' \in [Clients -> Nat] /\ UNCHANGED <<authenticated, subscribed>>
    BY <1>4, <1>8 DEF BadToken
  <2>2. /\ events' \in Nat
        /\ UNCHANGED <<serverVars, peer, writer, hold, failures, sendVars, aborted>>
    BY <1>3, <1>8 DEF BadToken
  <2>3. StopByReader(c)
    BY <1>8 DEF BadToken
  <2> QED
    BY <1>5, <2>1, <2>2, <2>3 DEF TypeOK, serverVars, sendVars
<1>9. ASSUME NEW c \in Clients, ReadError(c) PROVE TypeOK'
  <2>1. /\ StopByReader(c)
        /\ UNCHANGED <<serverVars, peer, authenticated, subscribed, depth, writer, hold, failures,
                       sendVars, events, aborted>>
    BY <1>9 DEF ReadError
  <2> QED
    BY <1>5, <2>1 DEF TypeOK, serverVars, sendVars
<1>10. ASSUME NEW c \in Clients, ReaderJoined(c) PROVE TypeOK'
  BY <1>10 DEF ReaderJoined, TypeOK, serverVars, sendVars
<1>11. ASSUME NEW c \in Clients, WriterTake(c) PROVE TypeOK'
  BY <1>11 DEF WriterTake, WriterUnchanged, TypeOK, serverVars, sendVars
<1>12. ASSUME NEW c \in Clients, WriterSend(c) PROVE TypeOK'
  BY <1>12 DEF WriterSend, WriterUnchanged, TypeOK, serverVars, sendVars
<1>13. ASSUME NEW c \in Clients, WriterFail(c) PROVE TypeOK'
  <2>1. failures[c] + 1 \in 0..MaxWriteFailures
    BY <1>13 DEF WriterFail, TypeOK, Breaker
  <2>2. failures' \in [Clients -> 0..MaxWriteFailures]
    BY <1>13, <2>1 DEF WriterFail, TypeOK
  <2>3. hold' \in [Clients -> Nat]
    BY <1>13 DEF WriterFail, TypeOK
  <2>4. running' \in [Clients -> BOOLEAN] /\ socket' \in [Clients -> BOOLEAN]
    BY <1>13 DEF WriterFail, TypeOK
  <2>5. writer' \in [Clients -> {"none", "loop", "selfJoin", "done"}]
    BY <1>13 DEF WriterFail, TypeOK
  <2>6. UNCHANGED <<depth, aborted, serverVars, peer, authenticated, subscribed, reader, sendVars,
                    events>>
    BY <1>13 DEF WriterFail, WriterUnchanged
  <2> QED
    BY <2>2, <2>3, <2>4, <2>5, <2>6 DEF TypeOK, serverVars, sendVars
<1>14. ASSUME NEW c \in Clients, WriterSelfJoin(c) PROVE TypeOK'
  BY <1>14 DEF WriterSelfJoin, WriterUnchanged, TypeOK, serverVars, sendVars
<1>15. ASSUME NEW c \in Clients, WriterExit(c) PROVE TypeOK'
  BY <1>15 DEF WriterExit, WriterUnchanged, TypeOK, serverVars, sendVars
<1>16. ASSUME NEW s \in Senders, NEW c \in Clients, SendTest(s, c) PROVE TypeOK'
  <2>1. todo' \in [Senders -> SUBSET Clients] /\ sending' \in [Senders -> SUBSET Clients]
    BY <1>16 DEF SendTest, TypeOK
  <2>2. SendUnchanged /\ UNCHANGED <<events, pubPc, waiting, beatPc, depth>>
    BY <1>16 DEF SendTest
  <2> QED
    BY <2>1, <2>2 DEF SendUnchanged, TypeOK, serverVars
<1>17. ASSUME NEW s \in Senders, NEW c \in Clients, SendEnqueue(s, c) PROVE TypeOK'
  <2>1. depth' \in [Clients -> Nat] /\ sending' \in [Senders -> SUBSET Clients]
    BY <1>17 DEF SendEnqueue, TypeOK
  <2>2. SendUnchanged /\ UNCHANGED <<events, pubPc, waiting, beatPc, todo>>
    BY <1>17 DEF SendEnqueue
  <2> QED
    BY <2>1, <2>2 DEF SendUnchanged, TypeOK, serverVars
<1>18. CASE PublishBegin
  BY <1>0, <1>18 DEF PublishBegin, SendUnchanged, TypeOK, serverVars
<1>19. CASE PublishSnapshot
  <2>1. todo' \in [Senders -> SUBSET Clients]
    BY <1>19 DEF PublishSnapshot, TypeOK
  <2> QED
    BY <1>19, <2>1 DEF PublishSnapshot, SendUnchanged, TypeOK, serverVars
<1>20. CASE PublishPause \/ PublishGo \/ PublishReturn
  <2>1. /\ waiting' \in BOOLEAN /\ pubPc' \in {"idle", "wait", "send"} /\ SendUnchanged
        /\ UNCHANGED <<events, beatPc, todo, sending, depth>>
    BY <1>20 DEF PublishPause, PublishGo, PublishReturn, TypeOK
  <2> QED
    BY <2>1 DEF SendUnchanged, TypeOK, serverVars
<1>21. CASE BeatWake
  BY <1>0, <1>21 DEF BeatWake, BeatUnchanged, TypeOK, connVars
<1>22. CASE BeatLock
  <2>1. clients' \subseteq Clients /\ todo' \in [Senders -> SUBSET Clients]
    BY <1>22 DEF BeatLock, TypeOK
  <2> QED
    BY <1>22, <2>1 DEF BeatLock, BeatUnchanged, TypeOK, connVars
<1>23. CASE BeatUnlock \/ BeatEnd
  BY <1>23 DEF BeatUnlock, BeatEnd, BeatUnchanged, TypeOK, connVars
<1>24. CASE IoStop
  BY <1>24, ZenonT(60) DEF IoStop, TypeOK, connVars, sendVars
<1>25. CASE ServerStop \/ StopLock \/ StopUnlock \/ StopReturn
  BY <1>25, ZenonT(60) DEF ServerStop, StopLock, StopUnlock, StopReturn, StopUnchanged, TypeOK, sendVars
<1>26. ASSUME NEW c \in Clients, StopClient(c) PROVE TypeOK'
  BY <1>26 DEF StopClient, StopUnchanged, TypeOK, sendVars
<1>27. ASSUME NEW c \in Clients, StopJoined(c) PROVE TypeOK'
  BY <1>27 DEF StopJoined, StopUnchanged, TypeOK, sendVars
<1>28. CASE Refuse \/ UNCHANGED vars
  BY <1>28 DEF Refuse, TypeOK, vars, serverVars, connVars, sendVars
<1> QED
  BY <1>1, <1>2, <1>6, <1>7, <1>8, <1>9, <1>10, <1>11, <1>12, <1>13, <1>14, <1>15, <1>16, <1>17,
     <1>18, <1>19, <1>20, <1>21, <1>22, <1>23, <1>24, <1>25, <1>26, <1>27, <1>28
  DEF Next, ReaderStep, WriterStep, PublishStep, BeatStep, StopStep, SendStep, Senders

(* The steps that leave what the connections' invariants are about alone.  *)
LEMMA ConnectionsAlone ==
  ASSUME [Next]_vars,
         ~\E c \in Clients : \/ Accept(c) \/ Leave(c) \/ BadToken(c) \/ ReadError(c)
                             \/ ReaderJoined(c) \/ WriterSend(c) \/ WriterFail(c) \/ WriterExit(c)
                             \/ StopClient(c) \/ StopJoined(c)
  PROVE  UNCHANGED <<peer, socket, running, writer, failures, reader, joining>>
<1> DEFINE Alone == UNCHANGED <<peer, socket, running, writer, failures, reader, joining>>
<1>1. ASSUME NEW c \in Clients, Authenticate(c) \/ Subscribe(c) \/ Unsubscribe(c) PROVE Alone
  BY <1>1 DEF Authenticate, Subscribe, Unsubscribe, Reads, serverVars
<1>2. ASSUME NEW c \in Clients, WriterTake(c) \/ WriterSelfJoin(c) PROVE Alone
  BY <1>2 DEF WriterTake, WriterSelfJoin, WriterUnchanged, serverVars
<1>3. ASSUME NEW s, NEW c, SendTest(s, c) \/ SendEnqueue(s, c) PROVE Alone
  BY <1>3 DEF SendTest, SendEnqueue, SendUnchanged, serverVars
<1>4. CASE PublishBegin \/ PublishSnapshot \/ PublishPause \/ PublishGo \/ PublishReturn
  BY <1>4 DEF PublishBegin, PublishSnapshot, PublishPause, PublishGo, PublishReturn, SendUnchanged,
              serverVars
<1>5. CASE BeatWake \/ BeatLock \/ BeatUnlock \/ BeatEnd
  BY <1>5 DEF BeatWake, BeatLock, BeatUnlock, BeatEnd, BeatUnchanged, connVars
<1>6. CASE IoStop
  BY <1>6 DEF IoStop, connVars
<1>7. CASE ServerStop \/ StopLock \/ StopUnlock \/ StopReturn
  BY <1>7 DEF ServerStop, StopLock, StopUnlock, StopReturn, StopUnchanged
<1>8. CASE Refuse \/ UNCHANGED vars
  BY <1>8 DEF Refuse, vars, connVars, serverVars
<1> QED
  BY <1>1, <1>2, <1>3, <1>4, <1>5, <1>6, <1>7, <1>8
  DEF Next, ReaderStep, WriterStep, PublishStep, BeatStep, StopStep, SendStep

(* Every step keeps what ties a connection's fields to each other and to   *)
(* those who join its write thread.                                        *)
LEMMA ConnectionStep ==
  TypeOK /\ Breaker /\ OpenIsRunning /\ JoinsSound /\ [Next]_vars
    => Breaker' /\ OpenIsRunning' /\ JoinsSound'
<1> SUFFICES ASSUME TypeOK, Breaker, OpenIsRunning, JoinsSound, [Next]_vars,
                    NEW d \in Clients
             PROVE  /\ peer'[d] = "absent" => writer'[d] = "none"
                    /\ writer'[d] \in {"none", "loop"} => failures'[d] < MaxWriteFailures
                    /\ writer'[d] = "selfJoin" =>
                           peer'[d] = "gone" /\ failures'[d] = MaxWriteFailures
                    /\ socket'[d] = running'[d]
                    /\ running'[d] => writer'[d] = "loop"
                    /\ reader'[d] = "joining" => ~running'[d] /\ writer'[d] \in {"loop", "done"}
                    /\ d \in joining' => /\ ~running'[d] /\ writer'[d] \in {"loop", "done"}
                                         /\ reader'[d] # "joining"
  BY DEF Breaker, OpenIsRunning, JoinsSound
<1> DEFINE Goal == /\ peer'[d] = "absent" => writer'[d] = "none"
                   /\ writer'[d] \in {"none", "loop"} => failures'[d] < MaxWriteFailures
                   /\ writer'[d] = "selfJoin" =>
                          peer'[d] = "gone" /\ failures'[d] = MaxWriteFailures
                   /\ socket'[d] = running'[d]
                   /\ running'[d] => writer'[d] = "loop"
                   /\ reader'[d] = "joining" => ~running'[d] /\ writer'[d] \in {"loop", "done"}
                   /\ d \in joining' => /\ ~running'[d] /\ writer'[d] \in {"loop", "done"}
                                        /\ reader'[d] # "joining"
<1> USE ConstantsAssumption
<1>0. /\ peer[d] = "absent" => writer[d] = "none"
      /\ writer[d] \in {"none", "loop"} => failures[d] < MaxWriteFailures
      /\ writer[d] = "selfJoin" => peer[d] = "gone" /\ failures[d] = MaxWriteFailures
      /\ socket[d] = running[d]
      /\ running[d] => writer[d] = "loop"
      /\ reader[d] = "joining" => ~running[d] /\ writer[d] \in {"loop", "done"}
      /\ d \in joining => /\ ~running[d] /\ writer[d] \in {"loop", "done"}
                          /\ reader[d] # "joining"
  BY DEF Breaker, OpenIsRunning, JoinsSound
<1>a. ASSUME /\ peer'[d] = peer[d] /\ socket'[d] = socket[d] /\ running'[d] = running[d]
             /\ writer'[d] = writer[d] /\ failures'[d] = failures[d] /\ reader'[d] = reader[d]
             /\ joining' = joining
      PROVE  Goal
  BY <1>0, <1>a
<1>1. ASSUME NEW c \in Clients, Accept(c) PROVE Goal
  <2>1. CASE c # d
    BY <1>a, <1>1, <2>1 DEF Accept, TypeOK
  <2>2. CASE c = d
    <3>1. writer[d] = "none" /\ failures[d] < MaxWriteFailures /\ d \notin joining
      BY <1>0, <1>1, <2>2 DEF Accept
    <3>2. /\ peer'[d] = "connected" /\ socket'[d] = TRUE /\ running'[d] = TRUE
          /\ writer'[d] = "loop" /\ reader'[d] = "reading" /\ failures' = failures
          /\ joining' = joining
      BY <1>1, <2>2 DEF Accept, TypeOK
    <3> QED
      BY <3>1, <3>2
  <2> QED
    BY <2>1, <2>2
<1>2. ASSUME NEW c \in Clients, Leave(c) PROVE Goal
  <2>1. CASE c # d
    BY <1>a, <1>2, <2>1 DEF Leave, TypeOK, serverVars
  <2>2. CASE c = d
    <3>1. peer'[d] = "gone" /\ UNCHANGED <<socket, running, writer, failures, reader, joining>>
      BY <1>2, <2>2 DEF Leave, TypeOK, serverVars
    <3> QED
      BY <1>0, <3>1
  <2> QED
    BY <2>1, <2>2
<1>3. ASSUME NEW c \in Clients, StopByReader(c),
             UNCHANGED <<peer, writer, failures, joining>>
      PROVE  Goal
  <2>1. CASE c # d
    BY <1>a, <1>3, <2>1 DEF StopByReader, TypeOK
  <2>2. CASE c = d
    <3>1. running'[d] = FALSE /\ socket'[d] = FALSE
      BY <1>3, <2>2 DEF StopByReader, TypeOK
    <3>2. CASE running[d]
      <4>1. writer[d] = "loop" /\ d \notin joining
        BY <1>0, <3>2
      <4> QED
        BY <1>0, <1>3, <3>1, <4>1
    <3>3. CASE ~running[d]
      <4>1. reader'[d] = "done"
        BY <1>3, <2>2, <3>3 DEF StopByReader, TypeOK
      <4> QED
        BY <1>0, <1>3, <3>1, <4>1
    <3> QED
      BY <3>2, <3>3
  <2> QED
    BY <2>1, <2>2
<1>4. ASSUME NEW c \in Clients, BadToken(c) \/ ReadError(c) PROVE Goal
  <2>1. StopByReader(c) /\ UNCHANGED <<peer, writer, failures, joining>>
    BY <1>4 DEF BadToken, ReadError, Reads, serverVars
  <2> QED
    BY <1>3, <2>1
<1>5. ASSUME NEW c \in Clients, ReaderJoined(c) PROVE Goal
  <2>1. CASE c # d
    BY <1>a, <1>5, <2>1 DEF ReaderJoined, TypeOK, serverVars
  <2>2. CASE c = d
    <3>1. reader'[d] = "done" /\ UNCHANGED <<peer, socket, running, writer, failures, joining>>
      BY <1>5, <2>2 DEF ReaderJoined, TypeOK, serverVars
    <3> QED
      BY <1>0, <3>1
  <2> QED
    BY <2>1, <2>2
<1>6. ASSUME NEW c \in Clients, WriterSend(c) PROVE Goal
  <2>1. CASE c # d
    BY <1>a, <1>6, <2>1 DEF WriterSend, WriterUnchanged, TypeOK, serverVars
  <2>2. CASE c = d
    <3>1. /\ writer[d] = "loop" /\ failures'[d] = 0
          /\ UNCHANGED <<peer, socket, running, writer, reader, joining>>
      BY <1>6, <2>2 DEF WriterSend, WriterUnchanged, TypeOK, serverVars
    <3> QED
      BY <1>0, <3>1
  <2> QED
    BY <2>1, <2>2
<1>7. ASSUME NEW c \in Clients, WriterFail(c) PROVE Goal
  <2>1. CASE c # d
    BY <1>a, <1>7, <2>1 DEF WriterFail, WriterUnchanged, TypeOK, serverVars
  <2>2. CASE c = d
    <3>1. /\ writer[d] = "loop" /\ failures'[d] = failures[d] + 1
          /\ (~socket[d] \/ peer[d] = "gone") /\ UNCHANGED <<peer, reader, joining>>
      BY <1>7, <2>2 DEF WriterFail, WriterUnchanged, TypeOK, serverVars
    <3>2. failures[d] \in Nat /\ failures[d] < MaxWriteFailures
      BY <1>0, <3>1 DEF TypeOK
    <3>3. CASE failures[d] + 1 >= MaxWriteFailures
      <4>1. running'[d] = FALSE /\ socket'[d] = FALSE
        BY <1>7, <2>2, <3>3 DEF WriterFail, TypeOK
      <4>2. failures'[d] = MaxWriteFailures
        BY <3>1, <3>2, <3>3
      <4>3. CASE running[d]
        <5>1. writer'[d] = "selfJoin"
          BY <1>7, <2>2, <3>3, <4>3 DEF WriterFail, TypeOK
        <5>2. peer[d] = "gone" /\ reader[d] # "joining" /\ d \notin joining
          BY <1>0, <3>1, <4>3
        <5> QED
          BY <3>1, <4>1, <4>2, <5>1, <5>2
      <4>4. CASE ~running[d]
        <5>1. writer'[d] = "done"
          BY <1>7, <2>2, <3>3, <4>4 DEF WriterFail, TypeOK
        <5> QED
          BY <1>0, <3>1, <4>1, <5>1
      <4> QED
        BY <4>3, <4>4
    <3>4. CASE ~(failures[d] + 1 >= MaxWriteFailures)
      <4>1. writer'[d] = "loop" /\ running'[d] = running[d] /\ socket'[d] = socket[d]
        BY <1>7, <2>2, <3>4 DEF WriterFail, TypeOK
      <4>2. failures'[d] < MaxWriteFailures
        BY <3>1, <3>2, <3>4
      <4> QED
        BY <1>0, <3>1, <4>1, <4>2
    <3> QED
      BY <3>3, <3>4
  <2> QED
    BY <2>1, <2>2
<1>8. ASSUME NEW c \in Clients, WriterExit(c) PROVE Goal
  <2>1. CASE c # d
    BY <1>a, <1>8, <2>1 DEF WriterExit, WriterUnchanged, TypeOK, serverVars
  <2>2. CASE c = d
    <3>1. /\ writer[d] = "loop" /\ ~running[d] /\ writer'[d] = "done"
          /\ UNCHANGED <<peer, socket, running, failures, reader, joining>>
      BY <1>8, <2>2 DEF WriterExit, WriterUnchanged, TypeOK, serverVars
    <3> QED
      BY <1>0, <3>1
  <2> QED
    BY <2>1, <2>2
<1>9. ASSUME NEW c \in Clients, StopClient(c) PROVE Goal
  <2>1. UNCHANGED <<peer, writer, failures, reader>>
    BY <1>9 DEF StopClient, StopUnchanged
  <2>2. CASE c # d
    <3>1. running'[d] = running[d] /\ socket'[d] = socket[d] /\ d \notin joining'
      BY <1>9, <2>2 DEF StopClient, TypeOK
    <3> QED
      BY <1>0, <2>1, <3>1
  <2>3. CASE c = d
    <3>1. running'[d] = FALSE /\ socket'[d] = FALSE
      BY <1>9, <2>3 DEF StopClient, TypeOK
    <3>2. d \in joining' => running[d]
      BY <1>9, <2>3 DEF StopClient
    <3> QED
      BY <1>0, <2>1, <3>1, <3>2
  <2> QED
    BY <2>2, <2>3
<1>10. ASSUME NEW c \in Clients, StopJoined(c) PROVE Goal
  <2>1. joining' = {} /\ UNCHANGED <<peer, socket, running, writer, failures, reader>>
    BY <1>10 DEF StopJoined, StopUnchanged
  <2> QED
    BY <1>0, <2>1
<1>11. CASE UNCHANGED <<peer, socket, running, writer, failures, reader, joining>>
  BY <1>a, <1>11
<1> QED
  BY <1>1, <1>2, <1>4, <1>5, <1>6, <1>7, <1>8, <1>9, <1>10, <1>11, ConnectionsAlone

(* Every step keeps the account of clients_mutex_.                         *)
LEMMA MutexStep == TypeOK /\ MutexHeld /\ [Next]_vars => MutexHeld'
<1> SUFFICES ASSUME TypeOK, MutexHeld, [Next]_vars PROVE MutexHeld'
  OBVIOUS
<1>1. ASSUME UNCHANGED <<up, mutex, serverPc, beatPc>> PROVE MutexHeld'
  BY <1>1 DEF MutexHeld
<1>2. ASSUME NEW c \in Clients,
             Accept(c) \/ Leave(c) \/ ReaderStep(c) \/ ReaderJoined(c) \/ WriterStep(c)
      PROVE  UNCHANGED <<up, mutex, serverPc, beatPc>>
  BY <1>2 DEF Accept, Leave, ReaderStep, ReaderJoined, WriterStep, Authenticate, Subscribe,
              Unsubscribe, BadToken, ReadError, Reads, WriterTake, WriterSend, WriterFail,
              WriterSelfJoin, WriterExit, WriterUnchanged, serverVars, sendVars
<1>3. ASSUME NEW s, NEW c, SendTest(s, c) \/ SendEnqueue(s, c)
      PROVE  UNCHANGED <<up, mutex, serverPc, beatPc>>
  BY <1>3 DEF SendTest, SendEnqueue, SendUnchanged, serverVars
<1>4. CASE PublishBegin \/ PublishSnapshot \/ PublishPause \/ PublishGo \/ PublishReturn
  <2>1. UNCHANGED <<up, mutex, serverPc, beatPc>>
    BY <1>4 DEF PublishBegin, PublishSnapshot, PublishPause, PublishGo, PublishReturn,
                SendUnchanged, serverVars
  <2> QED
    BY <1>1, <2>1
<1>5. CASE BeatWake \/ BeatLock \/ BeatUnlock \/ BeatEnd
  BY <1>5 DEF BeatWake, BeatLock, BeatUnlock, BeatEnd, BeatUnchanged, MutexHeld
<1>6. CASE IoStop \/ Refuse \/ UNCHANGED vars
  <2>1. UNCHANGED <<up, mutex, serverPc, beatPc>>
    BY <1>6 DEF IoStop, Refuse, vars, serverVars, sendVars
  <2> QED
    BY <1>1, <2>1
<1>7. CASE ServerStop \/ StopLock \/ StopUnlock \/ StopReturn
  BY <1>7 DEF ServerStop, StopLock, StopUnlock, StopReturn, StopUnchanged, MutexHeld, sendVars
<1>8. ASSUME NEW c \in Clients, StopClient(c) \/ StopJoined(c)
      PROVE  UNCHANGED <<up, mutex, serverPc, beatPc>>
  BY <1>8 DEF StopClient, StopJoined, StopUnchanged, sendVars
<1> QED
  BY <1>1, <1>2, <1>3, <1>4, <1>5, <1>6, <1>7, <1>8
  DEF Next, PublishStep, BeatStep, StopStep, SendStep

(* Every step keeps the connection limit: a connection is added only below *)
(* it, and whatever else changes clients_ takes connections out.           *)
LEMMA LimitStep == TypeOK /\ WithinLimit /\ [Next]_vars => WithinLimit'
<1> SUFFICES ASSUME TypeOK, WithinLimit, [Next]_vars PROVE WithinLimit'
  OBVIOUS
<1>1. IsFiniteSet(clients)
  BY FS_Subset, ConstantsAssumption DEF TypeOK
<1>2. ASSUME clients' \subseteq clients PROVE WithinLimit'
  <2>1. Cardinality(clients') <= Cardinality(clients) /\ IsFiniteSet(clients')
    BY <1>1, <1>2, FS_Subset
  <2>2. Cardinality(clients') \in Nat /\ Cardinality(clients) \in Nat
    BY <1>1, <2>1, FS_CardinalityType
  <2> QED
    BY <2>1, <2>2, ConstantsAssumption DEF WithinLimit
<1>3. ASSUME NEW c \in Clients, Accept(c) PROVE WithinLimit'
  <2>1. Cardinality(clients) < MaxConnections /\ clients' = clients \cup {c}
    BY <1>3 DEF Accept
  <2>2. Cardinality(clients') = Cardinality(clients) \/ Cardinality(clients') = Cardinality(clients) + 1
    BY <1>1, <2>1, FS_AddElement
  <2>3. Cardinality(clients) \in Nat
    BY <1>1, FS_CardinalityType
  <2> QED
    BY <2>1, <2>2, <2>3, ConstantsAssumption DEF WithinLimit
<1>4. ASSUME NEW c \in Clients, Leave(c) \/ ReaderStep(c) \/ ReaderJoined(c) \/ WriterStep(c)
      PROVE  UNCHANGED clients
  BY <1>4 DEF Leave, ReaderStep, ReaderJoined, WriterStep, Authenticate, Subscribe, Unsubscribe,
              BadToken, ReadError, Reads, WriterTake, WriterSend, WriterFail, WriterSelfJoin,
              WriterExit, WriterUnchanged, serverVars
<1>5. ASSUME NEW s, NEW c, SendTest(s, c) \/ SendEnqueue(s, c) \/ StopClient(c) \/ StopJoined(c)
      PROVE  UNCHANGED clients
  BY <1>5 DEF SendTest, SendEnqueue, SendUnchanged, StopClient, StopJoined, serverVars
<1>6. CASE \/ PublishBegin \/ PublishSnapshot \/ PublishPause \/ PublishGo \/ PublishReturn
           \/ BeatWake \/ BeatUnlock \/ BeatEnd \/ IoStop \/ ServerStop \/ StopLock \/ StopReturn
           \/ Refuse \/ UNCHANGED vars
  <2>1. UNCHANGED clients
    BY <1>6 DEF PublishBegin, PublishSnapshot, PublishPause, PublishGo, PublishReturn,
                SendUnchanged, BeatWake, BeatUnlock, BeatEnd, IoStop, ServerStop, StopLock,
                StopReturn, Refuse, vars, serverVars
  <2> QED
    BY <1>2, <2>1
<1>7. CASE BeatLock \/ StopUnlock
  BY <1>2, <1>7 DEF BeatLock, StopUnlock
<1> QED
  BY <1>2, <1>3, <1>4, <1>5, <1>6, <1>7 DEF Next, PublishStep, BeatStep, StopStep, SendStep

(* Every step keeps the account of an abort.                               *)
LEMMA AbortStep ==
  TypeOK /\ Breaker /\ JoinsSound /\ AbortEarned /\ [Next]_vars => AbortEarned'
<1> SUFFICES ASSUME TypeOK, Breaker, JoinsSound, AbortEarned, [Next]_vars PROVE AbortEarned'
  OBVIOUS
<1>1. ASSUME NEW c \in Clients, WriterSelfJoin(c) PROVE AbortEarned'
  <2>1. writer[c] = "selfJoin" /\ UNCHANGED <<peer, failures, writer, running>>
    BY <1>1 DEF WriterSelfJoin, WriterUnchanged
  <2>2. peer[c] = "gone" /\ failures[c] = MaxWriteFailures /\ ~running[c]
    BY <2>1 DEF Breaker, JoinsSound
  <2> QED
    BY <2>1, <2>2 DEF AbortEarned
<1>2. ASSUME aborted' = aborted /\ ~aborted PROVE AbortEarned'
  BY <1>2 DEF AbortEarned
<1>3. ASSUME NEW c \in Clients,
             \/ Accept(c) \/ Leave(c) \/ ReaderStep(c) \/ ReaderJoined(c)
             \/ WriterTake(c) \/ WriterSend(c) \/ WriterFail(c) \/ WriterExit(c)
      PROVE  aborted' = aborted /\ ~aborted
  BY <1>3 DEF Accept, Leave, ReaderStep, ReaderJoined, Authenticate, Subscribe, Unsubscribe,
              BadToken, ReadError, Reads, WriterTake, WriterSend, WriterFail, WriterExit
<1>4. ASSUME NEW s, NEW c, SendTest(s, c) \/ SendEnqueue(s, c) \/ StopClient(c) \/ StopJoined(c)
      PROVE  aborted' = aborted /\ ~aborted
  BY <1>4 DEF SendTest, Sends, SendEnqueue, SendUnchanged, StopClient, StopJoined, StopUnchanged
<1>5. CASE \/ PublishBegin \/ PublishSnapshot \/ PublishPause \/ PublishGo \/ PublishReturn
           \/ BeatWake \/ BeatLock \/ BeatUnlock \/ BeatEnd
  <2>1. aborted' = aborted /\ ~aborted
    BY <1>5 DEF PublishBegin, PublishSnapshot, PublishPause, PublishGo, PublishReturn,
                SendUnchanged, BeatWake, BeatLock, BeatUnlock, BeatEnd, BeatUnchanged
  <2> QED
    BY <1>2, <2>1
<1>6. CASE IoStop \/ ServerStop \/ StopLock \/ StopUnlock \/ StopReturn
  <2>1. aborted' = aborted /\ ~aborted
    BY <1>6 DEF IoStop, ServerStop, StopLock, StopUnlock, StopReturn, StopUnchanged
  <2> QED
    BY <1>2, <2>1
<1>7. CASE Refuse \/ UNCHANGED vars
  BY <1>7 DEF Refuse, AbortEarned, vars, connVars
<1> QED
  BY <1>1, <1>2, <1>3, <1>4, <1>5, <1>6, <1>7
  DEF Next, WriterStep, PublishStep, BeatStep, StopStep, SendStep

LEMMA Inductive == IInv /\ [Next]_vars => IInv'
BY TypeStep, ConnectionStep, MutexStep, LimitStep, AbortStep DEF IInv

LEMMA Invariance == Spec => []IInv
BY InitHolds, Inductive, PTL DEF Spec

-----------------------------------------------------------------------------
(* Every variable keeps its type; in particular the breaker's counter      *)
(* never passes MAX_CONSECUTIVE_FAILURES.                                  *)
THEOREM TypeCorrect == Spec => []TypeOK
<1>1. IInv => TypeOK
  BY DEF IInv
<1> QED
  BY <1>1, Invariance, PTL

(* The accept handler keeps clients_ within MAX_CONNECTIONS.               *)
THEOREM LimitHolds == Spec => []WithinLimit
<1>1. IInv => WithinLimit
  BY DEF IInv
<1> QED
  BY <1>1, Invariance, PTL

(* Whoever joins a write thread, its read handler or stop, waits for a     *)
(* thread that will see running_ cleared, and is the only one to wait.     *)
THEOREM JoinsAreSound == Spec => []JoinsSound
<1>1. IInv => JoinsSound
  BY DEF IInv
<1> QED
  BY <1>1, Invariance, PTL

(* The process is brought down by a write thread only, after               *)
(* MAX_CONSECUTIVE_FAILURES failed writes to a client that has gone: no    *)
(* stop of the server or by a read handler ends in std::terminate.         *)
THEOREM AbortIsEarned == Spec => []AbortEarned
<1>1. IInv => AbortEarned
  BY DEF IInv
<1> QED
  BY <1>1, Invariance, PTL

-----------------------------------------------------------------------------
(* The frames bound for a connection only shrink once it has been stopped. *)
LEMMA DrainStep ==
  TypeOK /\ [Next]_vars =>
    [\A c \in Clients : ~running[c] /\ writer[c] # "selfJoin" => Pending(c)' <= Pending(c)]_vars
<1> SUFFICES ASSUME TypeOK, Next, NEW d \in Clients, ~running[d]
             PROVE  Pending(d)' <= Pending(d)
  OBVIOUS
<1> DEFINE late(S) == IF d \in S THEN 1 ELSE 0
<1>0. /\ depth[d] \in Nat
      /\ Pending(d) = depth[d] + late(sending["publish"]) + late(sending["heartbeat"])
      /\ Pending(d)' = depth'[d] + late(sending'["publish"]) + late(sending'["heartbeat"])
  BY DEF TypeOK, Pending
<1>a. ASSUME depth'[d] \in Nat, depth'[d] <= depth[d], sending' = sending
      PROVE  Pending(d)' <= Pending(d)
  BY <1>0, <1>a
<1>b. ASSUME depth' = depth, sending' = sending PROVE Pending(d)' <= Pending(d)
  BY <1>0, <1>b
<1>1. ASSUME NEW c \in Clients,
             \/ Accept(c) \/ Leave(c) \/ ReadError(c) \/ ReaderJoined(c) \/ WriterSend(c)
             \/ WriterFail(c) \/ WriterSelfJoin(c) \/ WriterExit(c) \/ StopClient(c) \/ StopJoined(c)
      PROVE  depth' = depth /\ sending' = sending
  BY <1>1 DEF Accept, Leave, ReadError, ReaderJoined, WriterSend, WriterFail, WriterSelfJoin,
              WriterExit, WriterUnchanged, StopClient, StopJoined, StopUnchanged, sendVars
<1>2. ASSUME NEW c \in Clients,
             Authenticate(c) \/ Subscribe(c) \/ Unsubscribe(c) \/ BadToken(c)
      PROVE  depth'[d] = depth[d] /\ sending' = sending
  <2>1. c # d /\ Acknowledge(c) /\ sending' = sending
    BY <1>2 DEF Authenticate, Subscribe, Unsubscribe, BadToken, Reads, sendVars
  <2> QED
    BY <2>1 DEF Acknowledge, TypeOK
<1>3. ASSUME NEW c \in Clients, WriterTake(c)
      PROVE  depth'[d] \in Nat /\ depth'[d] <= depth[d] /\ sending' = sending
  <2>1. depth' = [depth EXCEPT ![c] = 0] /\ sending' = sending
    BY <1>3 DEF WriterTake, WriterUnchanged, sendVars
  <2> QED
    BY <1>0, <2>1 DEF TypeOK
<1>4. ASSUME NEW s \in Senders, NEW c \in Clients, SendTest(s, c)
      PROVE  Pending(d)' <= Pending(d)
  <2>1. /\ depth' = depth /\ sending[s] = {} /\ \A t \in Senders : t # s => sending'[t] = sending[t]
        /\ d \notin sending'[s]
    BY <1>4 DEF SendTest, Sends, TypeOK
  <2>2. CASE s = "publish"
    <3>1. sending'["heartbeat"] = sending["heartbeat"]
      BY <2>1, <2>2 DEF Senders
    <3> QED
      BY <1>0, <2>1, <2>2, <3>1
  <2>3. CASE s = "heartbeat"
    <3>1. sending'["publish"] = sending["publish"]
      BY <2>1, <2>3 DEF Senders
    <3> QED
      BY <1>0, <2>1, <2>3, <3>1
  <2> QED
    BY <2>2, <2>3 DEF Senders
<1>5. ASSUME NEW s \in Senders, NEW c \in Clients, SendEnqueue(s, c)
      PROVE  Pending(d)' <= Pending(d)
  <2>1. /\ sending'[s] = {} /\ \A t \in Senders : t # s => sending'[t] = sending[t]
        /\ depth'[d] = depth[d] + late({c}) /\ (c = d => d \in sending[s])
    BY <1>5 DEF SendEnqueue, TypeOK
  <2>2. CASE s = "publish"
    <3>1. sending'["heartbeat"] = sending["heartbeat"]
      BY <2>1, <2>2 DEF Senders
    <3> QED
      BY <1>0, <2>1, <2>2, <3>1
  <2>3. CASE s = "heartbeat"
    <3>1. sending'["publish"] = sending["publish"]
      BY <2>1, <2>3 DEF Senders
    <3> QED
      BY <1>0, <2>1, <2>3, <3>1
  <2> QED
    BY <2>2, <2>3 DEF Senders
<1>6. CASE \/ PublishBegin \/ PublishSnapshot \/ PublishPause \/ PublishGo \/ PublishReturn
           \/ BeatWake \/ BeatLock \/ BeatUnlock \/ BeatEnd
  <2>1. depth' = depth /\ sending' = sending
    BY <1>6 DEF PublishBegin, PublishSnapshot, PublishPause, PublishGo, PublishReturn,
                BeatWake, BeatLock, BeatUnlock, BeatEnd, BeatUnchanged, connVars
  <2> QED
    BY <1>b, <2>1
<1>7. CASE IoStop \/ ServerStop \/ StopLock \/ StopUnlock \/ StopReturn \/ Refuse
  <2>1. depth' = depth /\ sending' = sending
    BY <1>7 DEF IoStop, ServerStop, StopLock, StopUnlock, StopReturn, StopUnchanged, Refuse, vars,
                connVars, sendVars
  <2> QED
    BY <1>b, <2>1
<1>8. ASSUME depth'[d] = depth[d], sending' = sending PROVE Pending(d)' <= Pending(d)
  BY <1>0, <1>8
<1> HIDE DEF late
<1> QED
  BY <1>a, <1>b, <1>1, <1>2, <1>3, <1>4, <1>5, <1>6, <1>7, <1>8
  DEF Next, ReaderStep, WriterStep, PublishStep, BeatStep, StopStep, SendStep, Senders

(* A connection that has been stopped is taken up by no sender any more:   *)
(* what is queued for it or past send_frame's test only shrinks, although  *)
(* publish works on an old snapshot of the clients and a stop may come     *)
(* between the test and the enqueue.                                       *)
THEOREM StoppedDrains == Spec => StoppedOnlyDrains
<1>1. IInv => TypeOK
  BY DEF IInv
<1> QED
  BY <1>1, Invariance, DrainStep, PTL DEF Spec, StoppedOnlyDrains

=============================================================================
