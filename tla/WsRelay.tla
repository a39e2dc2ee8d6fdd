------------------------------ MODULE WsRelay ------------------------------
(***************************************************************************)
(* One connection through the relay of an edge (vpn-ws-relay-go/main.go).  *)
(* The handler dials the upstream, a TCP server or another websocket, then *)
(* starts a pump for each direction and a ping loop for each websocket and *)
(* waits for the first of them to call closeDone.                          *)
(*                                                                         *)
(* A message is its copying.  Time is counted in ping intervals.  A peer   *)
(* that is silent has vanished without a word, at any point of a message;  *)
(* what is written to it may still fit in the buffers on the way.          *)
(***************************************************************************)
EXTENDS Naturals

CONSTANT PongWait    \* wsPongWait in ping intervals

\* pingInterval has no upper bound: the relay relies on its environment for this.
ASSUME PongWaitAssumption == PongWait \in Nat \ {0, 1}

VARIABLES
    mode,       \* UPSTREAM_MODE
    peer,       \* what each end does: alive, silent or closed
    open,       \* connections the handler has not closed
    handler,    \* where the handler is
    pump,       \* where the pump that reads each connection is
    ping,       \* where each connection's ping loop is
    done,       \* the channel is closed
    writeMu,    \* who holds the write mutex of each websocket
    pong,       \* a pong is on its way
    waited      \* ping intervals since the read deadline was set last

net == <<mode, peer>>
clock == <<pong, waited>>
vars == <<net, open, handler, pump, ping, done, writeMu, clock>>

-----------------------------------------------------------------------------

Conns == {"client", "upstream"}
Other(c) == IF c = "client" THEN "upstream" ELSE "client"
Ws(c) == c = "client" \/ mode = "ws"

Alive(c) == peer[c] = "alive"
AllAlive == \A c \in Conns : Alive(c)
Expired(c) == Ws(c) /\ waited[c] = PongWait

\* Without a websocket upstream nothing of a websocket is ever done to it.
TypeOK ==
    /\ mode \in {"tcp", "ws"}
    /\ peer \in [Conns -> {"alive", "silent", "closed"}]
    /\ open \in SUBSET Conns
    /\ handler \in {"dial", "wait", "lock", "write", "ended"}
    /\ pump \in [Conns -> {"idle", "read", "lock", "copy", "ended"}]
    /\ ping \in [Conns -> {"idle", "wait", "lock", "write", "ended"}]
    /\ done \in BOOLEAN
    /\ writeMu \in [Conns -> {"free", "pump", "ping", "handler"}]
    /\ pong \in [Conns -> BOOLEAN]
    /\ waited \in [Conns -> 0 .. PongWait]
    /\ \A c \in Conns : ~Ws(c) =>
           /\ ping[c] = "idle" /\ ~pong[c]
           /\ writeMu[c] = "free" /\ waited[c] = 0

Init ==
    /\ mode \in {"tcp", "ws"}
    /\ peer = [c \in Conns |-> "alive"]
    /\ open = {"client"}
    /\ handler = "dial"
    /\ pump = [c \in Conns |-> "idle"]
    /\ ping = [c \in Conns |-> "idle"]
    /\ done = FALSE
    /\ writeMu = [c \in Conns |-> "free"]
    /\ pong = [c \in Conns |-> FALSE]
    /\ waited = [c \in Conns |-> 0]

PumpTo(c, state) == pump' = [pump EXCEPT ![c] = state]
PingTo(c, state) == ping' = [ping EXCEPT ![c] = state]
Take(c, who) == writeMu[c] = "free" /\ writeMu' = [writeMu EXCEPT ![c] = who]
Give(c) == writeMu' = [writeMu EXCEPT ![c] = "free"]

-----------------------------------------------------------------------------
(* handleWsToTcp and handleWsToWs *)

DialFails ==
    /\ handler = "dial"
    /\ handler' = "ended"
    /\ open' = {}
    /\ UNCHANGED <<net, pump, ping, done, writeMu, clock>>

\* A fault: a ping loop for the upstream in either mode.
DialledTwoLoops ==
    /\ handler = "dial"
    /\ handler' = "wait"
    /\ open' = Conns
    /\ pump' = [c \in Conns |-> "read"]
    /\ ping' = [c \in Conns |-> "wait"]
    /\ UNCHANGED <<net, done, writeMu, clock>>

Dialled ==
    /\ handler = "dial"
    /\ handler' = "wait"
    /\ open' = Conns
    /\ pump' = [c \in Conns |-> "read"]
    /\ ping' = [c \in Conns |-> IF Ws(c) THEN "wait" ELSE "idle"]
    /\ UNCHANGED <<net, done, writeMu, clock>>

CloseAll ==
    /\ handler' = "ended"
    /\ open' = {}

\* The deferred calls close both connections.
Woken ==
    /\ handler = "wait" /\ done
    /\ \/ mode = "ws" /\ CloseAll
       \/ mode = "tcp" /\ handler' = "lock" /\ UNCHANGED open
    /\ UNCHANGED <<net, pump, ping, done, writeMu, clock>>

\* Over TCP the client is told with a close frame first.
HandlerLock ==
    /\ handler = "lock"
    /\ handler' = "write"
    /\ Take("client", "handler")
    /\ UNCHANGED <<net, open, pump, ping, done, clock>>

HandlerClose ==
    /\ handler = "write"
    /\ CloseAll
    /\ Give("client")
    /\ UNCHANGED <<net, pump, ping, done, clock>>

-----------------------------------------------------------------------------
(* The pump that reads c and writes to the other connection *)

Message(c) ==
    /\ pump[c] = "read"
    /\ c \in open /\ Alive(c) /\ ~Expired(c)
    /\ PumpTo(c, IF Ws(Other(c)) THEN "lock" ELSE "copy")
    /\ UNCHANGED <<net, open, handler, ping, done, writeMu, clock>>

\* A fault: the pong handler leaves the deadline alone.
PongIgnored(c) ==
    /\ pump[c] = "read"
    /\ c \in open /\ Alive(c) /\ ~Expired(c)
    /\ pong[c]
    /\ pong' = [pong EXCEPT ![c] = FALSE]
    /\ UNCHANGED <<net, open, handler, pump, ping, done, writeMu, waited>>

\* The pong handler runs in the read that finds the pong.
Pong(c) ==
    /\ pump[c] = "read"
    /\ c \in open /\ Alive(c) /\ ~Expired(c)
    /\ pong[c]
    /\ pong' = [pong EXCEPT ![c] = FALSE]
    /\ waited' = [waited EXCEPT ![c] = 0]
    /\ UNCHANGED <<net, open, handler, pump, ping, done, writeMu>>

ReadEnds(c) ==
    /\ pump[c] = "read"
    /\ c \notin open \/ peer[c] = "closed" \/ Expired(c)
    /\ PumpTo(c, "ended")
    /\ done' = TRUE
    /\ UNCHANGED <<net, open, handler, ping, writeMu, clock>>

\* A fault: the pump does not wait for the mutex.
PumpLocksAnyway(c) ==
    /\ pump[c] = "lock"
    /\ PumpTo(c, "copy")
    /\ writeMu' = [writeMu EXCEPT ![Other(c)] = "pump"]
    /\ UNCHANGED <<net, open, handler, ping, done, clock>>

PumpLock(c) ==
    /\ pump[c] = "lock"
    /\ PumpTo(c, "copy")
    /\ Take(Other(c), "pump")
    /\ UNCHANGED <<net, open, handler, ping, done, clock>>

Unlock(c) == IF Ws(Other(c)) THEN Give(Other(c)) ELSE UNCHANGED writeMu

Copied(c) ==
    /\ pump[c] = "copy"
    /\ Other(c) \in open
    /\ PumpTo(c, "read")
    /\ Unlock(c)
    /\ UNCHANGED <<net, open, handler, ping, done, clock>>

\* A message is read from a websocket while it is written; what came by TCP is
\* in the pump's buffer.  Only a write to a websocket has a deadline.
CopyFails(c) ==
    /\ pump[c] = "copy"
    /\ \/ Other(c) \notin open \/ peer[Other(c)] = "closed"
       \/ Ws(Other(c)) /\ ~Alive(Other(c))
       \/ Ws(c) /\ (c \notin open \/ peer[c] = "closed" \/ Expired(c))
    /\ PumpTo(c, "ended")
    /\ done' = TRUE
    /\ Unlock(c)
    /\ UNCHANGED <<net, open, handler, ping, clock>>

-----------------------------------------------------------------------------
(* wsPingLoop *)

PingLock(c) ==
    /\ ping[c] = "lock"
    /\ PingTo(c, "write")
    /\ Take(c, "ping")
    /\ UNCHANGED <<net, open, handler, pump, done, clock>>

PingSent(c) ==
    /\ ping[c] = "write" /\ c \in open
    /\ PingTo(c, "wait")
    /\ Give(c)
    /\ pong' = [pong EXCEPT ![c] = Alive(c)]
    /\ UNCHANGED <<net, open, handler, pump, done, waited>>

\* A fault: the loop ends and leaves the connection to its pumps.
PingFailsAlone(c) ==
    /\ ping[c] = "write" /\ (c \notin open \/ ~Alive(c))
    /\ PingTo(c, "ended")
    /\ Give(c)
    /\ UNCHANGED <<net, open, handler, pump, done, clock>>

PingFails(c) ==
    /\ ping[c] = "write" /\ (c \notin open \/ ~Alive(c))
    /\ PingTo(c, "ended")
    /\ Give(c)
    /\ done' = TRUE
    /\ UNCHANGED <<net, open, handler, pump, clock>>

PingDone(c) ==
    /\ ping[c] = "wait" /\ done
    /\ PingTo(c, "ended")
    /\ UNCHANGED <<net, open, handler, pump, done, writeMu, clock>>

-----------------------------------------------------------------------------
(* Time and the peers *)

\* Each ticker wakes its loop, or is missed by a loop that is still at its last
\* ping.  A dial takes less than a ping interval; so does a ping with its pong,
\* and a message between them, while both peers are alive.
Tick ==
    /\ handler \notin {"dial", "ended"}
    /\ AllAlive => \A c \in Conns : ping[c] \notin {"lock", "write"} /\ ~pong[c]
    /\ ping' = [c \in Conns |-> IF ping[c] = "wait" THEN "lock" ELSE ping[c]]
    /\ waited' = [c \in Conns |->
                      IF Ws(c) /\ waited[c] < PongWait THEN waited[c] + 1 ELSE waited[c]]
    /\ UNCHANGED <<net, open, handler, pump, done, writeMu, pong>>

\* What a peer had still to answer is lost with it.
PeerSilent(c) ==
    /\ Alive(c) /\ handler # "ended"
    /\ peer' = [peer EXCEPT ![c] = "silent"]
    /\ pong' = [pong EXCEPT ![c] = FALSE]
    /\ UNCHANGED <<mode, open, handler, pump, ping, done, writeMu, waited>>

PeerCloses(c) ==
    /\ peer[c] # "closed" /\ handler # "ended"
    /\ peer' = [peer EXCEPT ![c] = "closed"]
    /\ pong' = [pong EXCEPT ![c] = FALSE]
    /\ UNCHANGED <<mode, open, handler, pump, ping, done, writeMu, waited>>

Next ==
    \/ DialFails \/ Dialled \/ Woken \/ HandlerLock \/ HandlerClose \/ Tick
    \/ \E c \in Conns :
           \/ Message(c) \/ Pong(c) \/ ReadEnds(c)
           \/ PumpLock(c) \/ Copied(c) \/ CopyFails(c)
           \/ PingLock(c) \/ PingSent(c) \/ PingFails(c) \/ PingDone(c)
           \/ PeerSilent(c) \/ PeerCloses(c)

HandlerSteps == DialFails \/ Dialled \/ Woken \/ HandlerLock \/ HandlerClose

\* A write to a TCP upstream that no longer reads waits until the connection is
\* closed, whatever becomes of the client meanwhile.
Stuck(c) == ~Ws(Other(c)) /\ Other(c) \in open /\ peer[Other(c)] = "silent"

PumpSteps(c) ==
    \/ Pong(c) \/ ReadEnds(c) \/ PumpLock(c)
    \/ ~Stuck(c) /\ CopyFails(c)
    \/ AllAlive /\ Copied(c)

PingSteps(c) == PingLock(c) \/ PingSent(c) \/ PingDone(c)

(***************************************************************************)
(* Every goroutine runs, a mutex of Go's does not starve who waits for it, *)
(* messages between living peers arrive, time passes, and pings to a peer  *)
(* that is gone fail in the end, if only by TCP's own timeouts.  Nothing   *)
(* makes a message to or from a silent peer complete.                      *)
(***************************************************************************)
Fairness ==
    /\ SF_vars(HandlerSteps)
    /\ SF_vars(Tick)
    /\ \A c \in Conns :
           SF_vars(PumpSteps(c)) /\ SF_vars(PingSteps(c)) /\ SF_vars(PingFails(c))

Spec == Init /\ [][Next]_vars
LiveSpec == Spec /\ Fairness

-----------------------------------------------------------------------------
(* Properties *)

\* The goroutines that are writing to c.
Writers(c) ==
    {who \in {"pump", "ping", "handler"} :
        \/ who = "pump" /\ pump[Other(c)] = "copy"
        \/ who = "ping" /\ ping[c] = "write"
        \/ who = "handler" /\ c = "client" /\ handler = "write"}

\* The websocket library allows one writer to a connection at a time: messages
\* pumped to it, pings and the close frame of the handler exclude each other.
OneWriter == \A c \in Conns : \A who, other \in Writers(c) : who = other

\* The relay does not end a connection both of whose peers are there and answer
\* pings: the read deadline set by prepareWebSocket is met however long nothing
\* else is sent.
AliveSessionStays == [][~done /\ done' => ~AllAlive]_vars

Ended ==
    /\ handler = "ended" /\ open = {}
    /\ \A c \in Conns : {pump[c], ping[c]} \subseteq {"idle", "ended"}

\* A client that leaves or vanishes does not leak: whatever the upstream does,
\* every goroutine ends and both connections are closed, also when a pump was
\* stuck in a write to an upstream that no longer reads.
ClientGoneEnds == ~Alive("client") ~> Ended

-----------------------------------------------------------------------------
=============================================================================
