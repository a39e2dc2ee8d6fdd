--------------------------- MODULE WsRelayProofs ---------------------------
(***************************************************************************)
(* For any read deadline of at least two ping intervals: a websocket has   *)
(* one writer at a time, and a connection between living peers stays.      *)
(***************************************************************************)
EXTENDS WsRelay, TLAPS

\* Whoever writes to a websocket holds its mutex.
Mutex ==
    \A c \in Conns : Ws(c) =>
        /\ pump[Other(c)] = "copy" <=> writeMu[c] = "pump"
        /\ ping[c] = "write" <=> writeMu[c] = "ping"
        /\ (c = "client" /\ handler = "write") <=> writeMu[c] = "handler"

\* What runs, by where the handler is.
Stages ==
    /\ handler = "dial" =>
           ~done /\ \A c \in Conns : pump[c] = "idle" /\ ping[c] = "idle" /\ waited[c] = 0 /\ ~pong[c]
    /\ handler \in {"lock", "write"} => done
    /\ handler = "ended" =>
           done \/ \A c \in Conns : pump[c] = "idle" /\ ping[c] = "idle"
    /\ handler = "wait" => open = Conns
    /\ \A c \in Conns : pump[c] = "lock" => Ws(Other(c))

\* While both peers live, a ping interval that has passed has a ping or a pong
\* under way for each websocket.
Answering ==
    AllAlive /\ ~done /\ handler = "wait" =>
        \A c \in Conns : Ws(c) =>
            /\ ping[c] \in {"wait", "lock", "write"}
            /\ waited[c] \in {0, 1}
            /\ waited[c] = 1 => ping[c] \in {"lock", "write"} \/ pong[c]

IInv == TypeOK /\ Mutex /\ Stages /\ Answering

USE PongWaitAssumption
USE DEF Conns, Other, Ws, Alive, AllAlive, Expired, PumpTo, PingTo, Take, Give,
        Unlock, CloseAll, net, clock

LEMMA InitIInv == Init => IInv
<1> SUFFICES ASSUME Init PROVE IInv
  OBVIOUS
<1> USE DEF Init
<1>1. TypeOK
  <2>1. done \in BOOLEAN
    BY Zenon
  <2>2. pong \in [Conns -> BOOLEAN]
    BY Zenon
  <2>3. \A c \in Conns : ~pong[c]
    BY Zenon
  <2>4. waited \in [Conns -> 0 .. PongWait]
    OBVIOUS
  <2> QED BY <2>1, <2>2, <2>3, <2>4 DEF TypeOK
<1>2. Mutex
  BY DEF Mutex
<1>3. Stages
  BY DEF Stages
<1>4. Answering
  BY DEF Answering
<1> QED BY <1>1, <1>2, <1>3, <1>4 DEF IInv

\* Every step keeps the invariant.
LEMMA NextIInv == IInv /\ [Next]_vars => IInv'
<1> SUFFICES ASSUME IInv, [Next]_vars PROVE IInv'
  OBVIOUS
<1> USE DEF IInv
<1>1. CASE DialFails
  BY <1>1 DEF DialFails, TypeOK, Mutex, Stages, Answering
<1>2. CASE Dialled
  BY <1>2 DEF Dialled, TypeOK, Mutex, Stages, Answering
<1>3. CASE Woken
  BY <1>3 DEF Woken, TypeOK, Mutex, Stages, Answering
<1>4. CASE HandlerLock
  BY <1>4 DEF HandlerLock, TypeOK, Mutex, Stages, Answering
<1>5. CASE HandlerClose
  BY <1>5 DEF HandlerClose, TypeOK, Mutex, Stages, Answering
<1>6. CASE Tick
  BY <1>6 DEF Tick, TypeOK, Mutex, Stages, Answering
<1>7. ASSUME NEW c \in Conns, Message(c) PROVE IInv'
  BY <1>7 DEF Message, TypeOK, Mutex, Stages, Answering
<1>8. ASSUME NEW c \in Conns, Pong(c) PROVE IInv'
  BY <1>8 DEF Pong, TypeOK, Mutex, Stages, Answering
<1>9. ASSUME NEW c \in Conns, ReadEnds(c) PROVE IInv'
  BY <1>9 DEF ReadEnds, TypeOK, Mutex, Stages, Answering
<1>10. ASSUME NEW c \in Conns, PumpLock(c) PROVE IInv'
  BY <1>10 DEF PumpLock, TypeOK, Mutex, Stages, Answering
<1>11. ASSUME NEW c \in Conns, Copied(c) PROVE IInv'
  BY <1>11 DEF Copied, TypeOK, Mutex, Stages, Answering
<1>12. ASSUME NEW c \in Conns, CopyFails(c) PROVE IInv'
  BY <1>12 DEF CopyFails, TypeOK, Mutex, Stages, Answering
<1>13. ASSUME NEW c \in Conns, PingLock(c) PROVE IInv'
  BY <1>13 DEF PingLock, TypeOK, Mutex, Stages, Answering
<1>14. ASSUME NEW c \in Conns, PingSent(c) PROVE IInv'
  BY <1>14 DEF PingSent, TypeOK, Mutex, Stages, Answering
<1>15. ASSUME NEW c \in Conns, PingFails(c) PROVE IInv'
  BY <1>15 DEF PingFails, TypeOK, Mutex, Stages, Answering
<1>16. ASSUME NEW c \in Conns, PingDone(c) PROVE IInv'
  BY <1>16 DEF PingDone, TypeOK, Mutex, Stages, Answering
<1>17. ASSUME NEW c \in Conns, PeerSilent(c) PROVE IInv'
  BY <1>17 DEF PeerSilent, TypeOK, Mutex, Stages, Answering
<1>18. ASSUME NEW c \in Conns, PeerCloses(c) PROVE IInv'
  BY <1>18 DEF PeerCloses, TypeOK, Mutex, Stages, Answering
<1>19. CASE UNCHANGED vars
  BY <1>19 DEF vars, TypeOK, Mutex, Stages, Answering
<1> QED
  BY <1>1, <1>2, <1>3, <1>4, <1>5, <1>6, <1>7, <1>8, <1>9, <1>10, <1>11,
     <1>12, <1>13, <1>14, <1>15, <1>16, <1>17, <1>18, <1>19 DEF Next

LEMMA Invariant == Spec => []IInv
BY InitIInv, NextIInv, PTL DEF Spec

\* The relay's state is well-formed, and without a websocket upstream no ping
\* loop and no mutex of one exists (main.go, handleWsToTcp).
THEOREM TypeCorrect == Spec => []TypeOK
<1>1. IInv => TypeOK
  BY DEF IInv
<1> QED BY <1>1, Invariant, PTL

\* Pumps, ping loops and the handler never write to one websocket at a time.
THEOREM OneWriterHolds == Spec => []OneWriter
<1>1. IInv => OneWriter
  BY DEF IInv, TypeOK, Mutex, OneWriter, Writers
<1> QED BY <1>1, Invariant, PTL

\* As long as both peers live and answer, nothing makes the relay end their
\* connection.
THEOREM AliveSessionStaysHolds == Spec => AliveSessionStays
<1>1. IInv /\ [Next]_vars => [~done /\ done' => ~AllAlive]_vars
  <2> SUFFICES ASSUME IInv, Next, ~done, done' PROVE ~AllAlive
    OBVIOUS
  <2> USE DEF IInv
  <2>1. PICK c \in Conns : ReadEnds(c) \/ CopyFails(c) \/ PingFails(c)
    BY DEF Next, DialFails, Dialled, Woken, HandlerLock, HandlerClose, Tick,
           Message, Pong, PumpLock, Copied, PingLock, PingSent, PingDone,
           PeerSilent, PeerCloses
  <2>2. handler = "wait" /\ open = Conns
    BY <2>1 DEF Stages, TypeOK, ReadEnds, CopyFails, PingFails
  <2>3. AllAlive => ~Expired("client") /\ ~Expired("upstream")
    BY <2>2 DEF Answering, TypeOK
  <2> QED BY <2>1, <2>2, <2>3 DEF ReadEnds, CopyFails, PingFails
<1> QED BY <1>1, Invariant, PTL DEF Spec, AliveSessionStays
=============================================================================
