------------------------ MODULE ManagedServersProofs ------------------------
(***************************************************************************)
(* For any number of requests, tunnels, users and keys: every row and      *)
(* register of ManagedServers keeps its type, no unit the panel put on a   *)
(* host is forgotten (UnitsAreKnown), the keys it lists have their limit   *)
(* (ListedKeysAreLimited), links lead to active tunnels (LinksWork), and   *)
(* an active row shows what its unit runs (ActiveRuns).                    *)
(*                                                                         *)
(* For any servers and clients, throws, kills and repeated runs: what a    *)
(* maintenance script with a backup has changed is in its backup files     *)
(* (BackupsHoldChanges); one that has undone its work, or its trial, has   *)
(* left lists and servers as it found them (UndoneIsAsBefore); one that    *)
(* says ok has given each client it works on the list that is wanted, and  *)
(* a file made of that (OkIsComplete).                                     *)
(***************************************************************************)
EXTENDS MCManagedServers, TLAPS

USE DEF host

\* A tunnel whose row is there, or excused from having one.
Known(t) == tunnel[t] # None \/ ~server \/ t \in overlapped

\* What a request at each stage has in its register.
TunnelStages == {"insert", "send", "await", "write", "error", "reread", "link", "link-write"}
WellFormed(g) ==
    /\ g.at \in TunnelStages => g.tunnel \in Tunnels
    /\ g.at \in {"limit", "save", "key-delete", "key-drop"} => g.key \in Keys
    /\ g.at \in {"insert", "send", "await", "write"} =>
         (g.op \in {"create", "update"} => g.config \in Configs)
    /\ g.at = "insert" => g.op = "create"
    /\ g.at = "link-write" => g.user \in Users
Registers == \A r \in Requests : req[r] \in Register /\ WellFormed(req[r])
LateCommands == \A c \in late : Applies(c) => c.config \in Configs

\* Requests that put a unit on the host, and the late commands that still may,
\* do so for a known tunnel.
AppliesToKnown ==
    /\ \A r \in Requests : \A t \in Tunnels :
         (Working(r, t) /\ req[r].at \in {"send", "await"} /\ req[r].op \in {"create", "update"})
         => Known(t)
    /\ \A c \in late : Applies(c) => Known(c.tunnel)

\* A deletion removes the row of a tunnel whose unit is gone.
DeletesUnused ==
    \A r \in Requests : \A t \in Tunnels :
        Working(r, t) /\ At(r, "write") /\ req[r].op = "delete" =>
            unit[t] = None \/ ~server \/ t \in overlapped

\* One request, or late commands, work on a tunnel at a time, but for the
\* creation that notes its failure while its command may still run.
OneAtATime ==
    \A t \in Tunnels \ overlapped :
        /\ \A r, q \in Requests : Working(r, t) /\ Working(q, t) => r = q
        /\ \A r \in Requests : Working(r, t) /\ ~At(r, "error") => \A c \in late : c.tunnel # t

Typed == TypeOK /\ Registers /\ LateCommands
Safe == UnitsAreKnown /\ AppliesToKnown /\ DeletesUnused /\ OneAtATime
IInv == Typed /\ Safe

-----------------------------------------------------------------------------
(* Types *)

LEMMA GotoTyped ==
    ASSUME req \in [Requests -> Register], Registers, NEW r \in Requests, NEW g,
           g \in Register, WellFormed(g), Goto(r, g)
    PROVE  req' \in [Requests -> Register] /\ Registers'
<1>1. req' \in [Requests -> Register] /\ \A q \in Requests : req'[q] = IF q = r THEN g ELSE req[q]
  BY DEF Goto
<1>2. \A q \in Requests : req'[q] \in Register /\ WellFormed(req'[q])
  BY <1>1 DEF Registers
<1> QED BY <1>1, <1>2 DEF Registers, WellFormed

LEMMA IdleTyped == Idle \in Register /\ WellFormed(Idle)
BY DEF Idle, Register, Stages, Ops, WellFormed, TunnelStages

LEMMA FinishTyped ==
    ASSUME req \in [Requests -> Register], Registers, NEW r \in Requests, Finish(r)
    PROVE  req' \in [Requests -> Register] /\ Registers'
BY GotoTyped, IdleTyped DEF Finish

\* Moving on within a request keeps its register.
LEMMA MoveTyped ==
    ASSUME req \in [Requests -> Register], Registers, NEW r \in Requests,
           NEW stage \in Stages, Move(r, stage),
           WellFormed([req[r] EXCEPT !.at = stage])
    PROVE  req' \in [Requests -> Register] /\ Registers'
<1>1. [req[r] EXCEPT !.at = stage] \in Register
  BY DEF Register
<1> QED BY <1>1, GotoTyped DEF Move

LEMMA AfterFailureTyped ==
    ASSUME req \in [Requests -> Register], Registers, NEW r \in Requests,
           req[r].at \in {"send", "await", "write"}, AfterFailure(r)
    PROVE  req' \in [Requests -> Register] /\ Registers'
<1>1. CASE req[r].op = "create"
  <2>1. WellFormed([req[r] EXCEPT !.at = "error"])
    BY DEF Registers, WellFormed, TunnelStages, Register
  <2> QED BY <1>1, <2>1, MoveTyped DEF AfterFailure, Stages
<1>2. CASE req[r].op # "create"
  BY <1>2, FinishTyped DEF AfterFailure
<1> QED BY <1>1, <1>2

LEMMA BeginTyped ==
    ASSUME Typed, NEW r \in Requests, NEW op \in Ops, NEW t \in Tunnels,
           NEW config \in Configs \cup {None}, op \in {"create", "update"} => config \in Configs,
           Begin(r, op, t, config)
    PROVE  Typed'
<1> DEFINE g == [Idle EXCEPT !.at = "send", !.op = op, !.tunnel = t, !.config = config]
<1>1. g \in Register /\ WellFormed(g)
  BY DEF Idle, Register, Stages, Ops, WellFormed, TunnelStages
<1>2. req' \in [Requests -> Register] /\ Registers'
  BY <1>1, GotoTyped DEF Begin, Typed, TypeOK
<1>3. overlapped' \subseteq Tunnels
  BY DEF Begin, Typed, TypeOK
<1> QED BY <1>2, <1>3 DEF Begin, Typed, TypeOK, LateCommands, Applies, rows, outline

LEMMA ArriveTyped ==
    ASSUME Typed, NEW r \in Requests, Arrive(r)
    PROVE  Typed'
<1>1. ASSUME NEW t \in Tunnels, NEW c \in Configs, NEW clients \in SUBSET Users,
             CreateBegin(r, t, c, clients)
      PROVE  Typed'
  <2> DEFINE g == [Idle EXCEPT !.at = "insert", !.op = "create", !.tunnel = t,
                               !.config = c, !.todo = clients]
  <2>1. g \in Register /\ WellFormed(g)
    BY DEF Idle, Register, Stages, Ops, WellFormed, TunnelStages
  <2>2. req' \in [Requests -> Register] /\ Registers'
    BY <1>1, <2>1, GotoTyped DEF CreateBegin, Typed, TypeOK
  <2> QED BY <1>1, <2>2 DEF CreateBegin, LocalStep, Typed, TypeOK, LateCommands, Applies,
                            rows, outline, history
<1>2. ASSUME NEW t \in Tunnels, NEW c \in Configs, Update(r, t, c)
      PROVE  Typed'
  BY <1>2, BeginTyped DEF Update, Ops
<1>3. ASSUME NEW t \in Tunnels, RestartTunnel(r, t) \/ Delete(r, t) \/ RemoveService(r, t)
      PROVE  Typed'
  BY <1>3, BeginTyped DEF RestartTunnel, Delete, RemoveService, Ops
<1>4. ASSUME NEW k \in Keys, KeyCreate(r, k)
      PROVE  Typed'
  <2> DEFINE g == [Idle EXCEPT !.at = "limit", !.key = k]
  <2>1. g \in Register /\ WellFormed(g)
    BY DEF Idle, Register, Stages, Ops, WellFormed, TunnelStages
  <2>2. req' \in [Requests -> Register] /\ Registers'
    BY <1>4, <2>1, GotoTyped DEF KeyCreate, Typed, TypeOK
  <2> QED BY <1>4, <2>2 DEF KeyCreate, Typed, TypeOK, LateCommands, Applies, rows, history
<1>5. ASSUME NEW k \in Keys, KeyDeleteBegin(r, k)
      PROVE  Typed'
  <2> DEFINE g == [Idle EXCEPT !.at = "key-delete", !.key = k]
  <2>1. g \in Register /\ WellFormed(g)
    BY DEF Idle, Register, Stages, Ops, WellFormed, TunnelStages
  <2>2. req' \in [Requests -> Register] /\ Registers'
    BY <1>5, <2>1, GotoTyped DEF KeyDeleteBegin, Typed, TypeOK
  <2> QED BY <1>5, <2>2 DEF KeyDeleteBegin, LocalStep, Typed, TypeOK, LateCommands, Applies,
                            rows, outline, history
<1> QED BY <1>1, <1>2, <1>3, <1>4, <1>5 DEF Arrive

\* What a command leaves on the host, whether it runs well or badly.
LEMMA HostTyped ==
    ASSUME unit \in [Tunnels -> Configs \cup {None}], NEW c \in Command,
           Applies(c) => c.config \in Configs, RunsWell(c) \/ RunsBadly(c)
    PROVE  unit' \in [Tunnels -> Configs \cup {None}]
BY DEF RunsWell, RunsBadly, Applies, Removes, Command, Ops

LEMMA DownTyped ==
    ASSUME down \subseteq Tunnels, NEW c \in Command, RunsWell(c) \/ RunsBadly(c)
    PROVE  down' \subseteq Tunnels
BY DEF RunsWell, RunsBadly, Command

LEMMA CommandTyped ==
    ASSUME Typed, NEW r \in Requests, At(r, "await")
    PROVE  /\ CommandOf(r) \in Command
           /\ Applies(CommandOf(r)) => CommandOf(r).config \in Configs
BY DEF Typed, Registers, Register, WellFormed, TunnelStages, CommandOf, Command, Applies, At

LEMMA NotedTyped ==
    ASSUME tunnel \in [Tunnels -> Row \cup {None}], NEW t \in Tunnels,
           NEW config, tunnel[t] # None => config \in Configs,
           NEW status \in {"pending", "active", "error"}
    PROVE  Noted(t, config, status) \in [Tunnels -> Row \cup {None}]
BY DEF Noted, Row

LEMMA ConfigTyped ==
    ASSUME tunnel \in [Tunnels -> Row \cup {None}], NEW t \in Tunnels
    PROVE  tunnel[t] # None => Config(t) \in Configs
BY DEF Config, Row

\* The stages a tunnel request passes, each with what its register then has.
LEMMA StageTyped ==
    ASSUME Typed, NEW r \in Requests, NEW stage \in Stages, Move(r, stage),
           \/ req[r].at \in {"insert", "send", "await"} /\ stage \in {"send", "await", "write", "error"}
           \/ req[r].at \in TunnelStages /\ stage \in {"error", "reread", "link"}
           \/ req[r].at \in {"limit", "key-delete"} /\ stage \in {"save", "key-drop"}
    PROVE  req' \in [Requests -> Register] /\ Registers'
<1>1. WellFormed([req[r] EXCEPT !.at = stage])
  BY DEF Typed, Registers, WellFormed, TunnelStages, Register
<1> QED BY <1>1, MoveTyped DEF Typed, TypeOK

LEMMA TunnelStepTyped ==
    ASSUME Typed, NEW r \in Requests,
           \/ CreateInsert(r) \/ Send(r) \/ Run(r) \/ RunFails(r) \/ Write(r) \/ WriteError(r)
    PROVE  Typed'
<1> USE DEF Typed
<1>t. req[r].at \in TunnelStages => req[r].tunnel \in Tunnels
  BY DEF Registers, WellFormed
<1>1. CASE CreateInsert(r)
  <2>1. req' \in [Requests -> Register] /\ Registers'
    BY <1>1, StageTyped, FinishTyped DEF CreateInsert, At, Stages, TypeOK
  <2>2. tunnel' \in [Tunnels -> Row \cup {None}]
    BY <1>1, <1>t DEF CreateInsert, At, TypeOK, Row, Registers, WellFormed, TunnelStages
  <2> QED BY <1>1, <2>1, <2>2 DEF CreateInsert, TypeOK, LateCommands, Applies, outline, history
<1>2. CASE Send(r)
  <2>1. req' \in [Requests -> Register] /\ Registers'
    BY <1>2, StageTyped, AfterFailureTyped DEF Send, At, Stages, TypeOK
  <2> QED BY <1>2, <2>1 DEF Send, LocalStep, TypeOK, LateCommands, Applies, rows, outline, history
<1>3. CASE Run(r)
  <2>1. req' \in [Requests -> Register] /\ Registers'
    BY <1>3, StageTyped, FinishTyped DEF Run, At, Stages, TypeOK
  <2>2. unit' \in [Tunnels -> Configs \cup {None}] /\ down' \subseteq Tunnels
    BY <1>3, CommandTyped, HostTyped, DownTyped DEF Run, TypeOK
  <2>3. stopped' \subseteq Tunnels /\ refused' \subseteq Tunnels
    BY <1>3, <1>t DEF Run, Stop, TypeOK, At, TunnelStages
  <2> QED BY <1>3, <2>1, <2>2, <2>3 DEF Run, TypeOK, LateCommands, Applies, rows, outline
<1>4. CASE RunFails(r)
  <2>1. req' \in [Requests -> Register] /\ Registers'
    BY <1>4, AfterFailureTyped DEF RunFails, At, TypeOK
  <2>2. unit' \in [Tunnels -> Configs \cup {None}] /\ down' \subseteq Tunnels
    BY <1>4, CommandTyped, HostTyped, DownTyped DEF RunFails, TypeOK
  <2>3. stopped' \subseteq Tunnels /\ refused' \subseteq Tunnels
    BY <1>4, <1>t DEF RunFails, Stop, TypeOK, At, TunnelStages
  <2> QED BY <1>4, <2>1, <2>2, <2>3 DEF RunFails, TypeOK, LateCommands, Applies, rows, outline
<1>5. CASE Write(r)
  <2>1. req' \in [Requests -> Register] /\ Registers'
    BY <1>5, StageTyped, FinishTyped DEF Write, At, Stages, TypeOK, TunnelStages
  <2>2. tunnel' \in [Tunnels -> Row \cup {None}]
    <3>1. req[r].tunnel \in Tunnels /\ (req[r].op = "update" => req[r].config \in Configs)
      BY <1>5 DEF Write, At, Registers, WellFormed, TunnelStages
    <3> QED BY <1>5, <3>1, NotedTyped, ConfigTyped DEF Write, TypeOK
  <2> QED BY <1>5, <2>1, <2>2 DEF Write, TypeOK, LateCommands, Applies, outline, history
<1>6. CASE WriteError(r)
  <2>1. req' \in [Requests -> Register] /\ Registers'
    BY <1>6, FinishTyped DEF WriteError, TypeOK
  <2>2. tunnel' \in [Tunnels -> Row \cup {None}]
    BY <1>6, <1>t, NotedTyped, ConfigTyped DEF WriteError, At, TunnelStages, TypeOK
  <2> QED BY <1>6, <2>1, <2>2 DEF WriteError, TypeOK, LateCommands, Applies, outline, history
<1> QED BY <1>1, <1>2, <1>3, <1>4, <1>5, <1>6

LEMMA LinkStepTyped ==
    ASSUME Typed, NEW r \in Requests,
           \/ Reread(r) \/ (\E u \in Users : Link(r, u)) \/ LinkWrite(r) \/ LinksDone(r)
    PROVE  Typed'
<1> USE DEF Typed
<1>t. req[r].at \in TunnelStages => req[r].tunnel \in Tunnels
  BY DEF Registers, WellFormed
<1>1. CASE Reread(r)
  <2>1. req' \in [Requests -> Register] /\ Registers'
    BY <1>1, StageTyped, FinishTyped DEF Reread, At, Stages, TypeOK, TunnelStages
  <2> QED BY <1>1, <2>1 DEF Reread, LocalStep, TypeOK, LateCommands, Applies, rows, outline, history
<1>2. ASSUME NEW u \in Users, Link(r, u)
      PROVE  Typed'
  <2> DEFINE g == [req[r] EXCEPT !.at = "link-write", !.user = u, !.seen = links[u],
                                 !.todo = @ \ {u}]
  <2>1. g \in Register /\ WellFormed(g)
    BY <1>2, <1>t, ZenonT(30) DEF Link, At, Registers, Register, Stages, WellFormed, TunnelStages, TypeOK
  <2>2. req' \in [Requests -> Register] /\ Registers'
    BY <1>2, <2>1, GotoTyped DEF Link, TypeOK
  <2> QED BY <1>2, <2>2 DEF Link, LocalStep, TypeOK, LateCommands, Applies, rows, outline, history
<1>3. CASE LinkWrite(r)
  <2>1. req' \in [Requests -> Register] /\ Registers'
    BY <1>3, StageTyped DEF LinkWrite, At, Stages, TypeOK, TunnelStages
  <2>2. links' \in [Users -> SUBSET Tunnels]
    BY <1>3, <1>t DEF LinkWrite, At, TypeOK, Registers, Register, TunnelStages
  <2> QED BY <1>3, <2>1, <2>2 DEF LinkWrite, TypeOK, LateCommands, Applies, outline, history
<1>4. CASE LinksDone(r)
  BY <1>4, FinishTyped DEF LinksDone, LocalStep, TypeOK, LateCommands, Applies, rows, outline, history
<1> QED BY <1>1, <1>2, <1>3, <1>4

LEMMA KeyStepTyped ==
    ASSUME Typed, NEW r \in Requests,
           KeyLimit(r) \/ KeySave(r) \/ KeyDelete(r) \/ KeyDrop(r)
    PROVE  Typed'
<1> USE DEF Typed
<1>k. req[r].at \in {"limit", "save", "key-delete", "key-drop"} => req[r].key \in Keys
  BY DEF Registers, WellFormed
<1>1. CASE KeyLimit(r)
  <2>1. req' \in [Requests -> Register] /\ Registers'
    BY <1>1, StageTyped, FinishTyped DEF KeyLimit, At, Stages, TypeOK
  <2> QED BY <1>1, <1>k, <2>1 DEF KeyLimit, At, TypeOK, LateCommands, Applies, rows, history
<1>2. CASE KeySave(r)
  BY <1>2, <1>k, FinishTyped DEF KeySave, At, TypeOK, LateCommands, Applies, rows, history
<1>3. CASE KeyDelete(r)
  <2>1. req' \in [Requests -> Register] /\ Registers'
    BY <1>3, StageTyped, FinishTyped DEF KeyDelete, At, Stages, TypeOK
  <2> QED BY <1>3, <2>1 DEF KeyDelete, TypeOK, LateCommands, Applies, rows, history
<1>4. CASE KeyDrop(r)
  BY <1>4, FinishTyped DEF KeyDrop, TypeOK, LateCommands, Applies, rows, history
<1> QED BY <1>1, <1>2, <1>3, <1>4

LEMMA FaultTyped ==
    ASSUME Typed, NEW r \in Requests, GiveUp(r) \/ WriteFails(r) \/ Fails(r)
    PROVE  Typed'
<1> USE DEF Typed
<1>f. faults' \in 0 .. MaxFaults
  BY MaxFaultsAssumption DEF GiveUp, WriteFails, Fails, Fault, TypeOK
<1>s. stopped' \subseteq Tunnels
  BY DEF GiveUp, WriteFails, Fails, Stop, TypeOK
<1>1. CASE GiveUp(r)
  <2>1. req' \in [Requests -> Register] /\ Registers'
    BY <1>1, AfterFailureTyped DEF GiveUp, At, TypeOK
  <2>2. late' \subseteq Command /\ LateCommands'
    BY <1>1, CommandTyped DEF GiveUp, TypeOK, LateCommands, Applies
  <2> QED BY <1>1, <1>f, <1>s, <2>1, <2>2 DEF GiveUp, TypeOK, rows, outline
<1>2. CASE WriteFails(r)
  <2>1. req' \in [Requests -> Register] /\ Registers'
    BY <1>2, AfterFailureTyped DEF WriteFails, At, TypeOK
  <2> QED BY <1>2, <1>f, <1>s, <2>1 DEF WriteFails, TypeOK, LateCommands, Applies, rows, outline
<1>3. CASE Fails(r)
  <2>1. req' \in [Requests -> Register] /\ Registers'
    <3>1. CASE At(r, "send") /\ AfterFailure(r)
      BY <3>1, AfterFailureTyped DEF At, TypeOK
    <3>2. CASE At(r, "link") /\ \E u \in req[r].todo : Goto(r, [req[r] EXCEPT !.todo = @ \ {u}])
      <4>1. PICK u \in req[r].todo : Goto(r, [req[r] EXCEPT !.todo = @ \ {u}])
        BY <3>2
      <4>2. /\ [req[r] EXCEPT !.todo = @ \ {u}] \in Register
            /\ WellFormed([req[r] EXCEPT !.todo = @ \ {u}])
        BY <3>2 DEF Registers, Register, WellFormed, TunnelStages, At
      <4> QED BY <4>1, <4>2, GotoTyped DEF TypeOK
    <3>3. CASE At(r, "link-write") /\ Move(r, "link")
      BY <3>3, StageTyped DEF At, Stages, TunnelStages
    <3>4. CASE Finish(r)
      BY <3>4, FinishTyped DEF TypeOK
    <3> QED BY <1>3, <3>1, <3>2, <3>3, <3>4 DEF Fails
  <2> QED BY <1>3, <1>f, <1>s, <2>1 DEF Fails, TypeOK, LateCommands, Applies, rows, outline
<1> QED BY <1>1, <1>2, <1>3

LEMMA HostAndPanelTyped ==
    ASSUME Typed, (\E c \in late : RunLate(c)) \/ DeleteServer \/ Restart
    PROVE  Typed'
<1> USE DEF Typed
<1>1. ASSUME NEW c \in late, RunLate(c)
      PROVE  Typed'
  <2>1. unit' \in [Tunnels -> Configs \cup {None}] /\ down' \subseteq Tunnels
    BY <1>1, HostTyped, DownTyped DEF RunLate, TypeOK, LateCommands
  <2> QED BY <1>1, <2>1 DEF RunLate, TypeOK, LateCommands, Applies, Registers, rows, outline, history
<1>2. CASE DeleteServer
  BY <1>2 DEF DeleteServer, TypeOK, LateCommands, Applies, Registers, history
<1>3. CASE Restart
  <2>1. req' \in [Requests -> Register] /\ Registers'
    BY <1>3, IdleTyped DEF Restart, Registers, WellFormed
  <2>2. late' \subseteq Command /\ LateCommands'
    BY <1>3, CommandTyped DEF Restart, TypeOK, LateCommands, Applies
  <2>3. faults' \in 0 .. MaxFaults /\ stopped' \subseteq Tunnels
    BY <1>3, MaxFaultsAssumption DEF Restart, Fault, TypeOK
  <2> QED BY <1>3, <2>1, <2>2, <2>3 DEF Restart, TypeOK, rows, outline
<1> QED BY <1>1, <1>2, <1>3

LEMMA InitTyped == Init => Typed
BY MaxFaultsAssumption, IdleTyped DEF Init, Typed, TypeOK, Registers, LateCommands

LEMMA NextTyped == Typed /\ [Next]_vars => Typed'
<1> SUFFICES ASSUME Typed, [Next]_vars PROVE Typed'
  OBVIOUS
<1>1. ASSUME NEW r \in Requests, Continue(r) PROVE Typed'
  BY <1>1, TunnelStepTyped, LinkStepTyped, KeyStepTyped DEF Continue
<1>2. CASE UNCHANGED vars
  BY <1>2 DEF vars, rows, outline, history, Typed, TypeOK, Registers, LateCommands, Applies
<1> QED BY <1>1, <1>2, ArriveTyped, FaultTyped, HostAndPanelTyped DEF Next

\* Every row, register and late command keeps its type.
THEOREM TypeCorrect == Spec => []TypeOK
<1>1. Typed => TypeOK
  BY DEF Typed
<1> QED BY <1>1, InitTyped, NextTyped, PTL DEF Spec

-----------------------------------------------------------------------------
(* Units are known *)

\* A request goes on to what its tunnel allows without another look, or ends.
Continues(g, h) ==
    \/ h.tunnel = None
    \/ /\ h.tunnel = g.tunnel /\ h.op = g.op
       /\ g.at # "error"
       /\ h.at \in {"send", "await"} => g.at \in {"send", "await"}
       /\ ~(h.at = "write" /\ h.op = "delete")

SameRows == \A t \in Tunnels : (tunnel'[t] = None) <=> (tunnel[t] = None)

LEMMA ContinuesSafe ==
    ASSUME Typed, Safe, NEW r \in Requests, NEW h \in Register, Goto(r, h),
           Continues(req[r], h), SameRows,
           UNCHANGED <<server, unit, late, overlapped>>
    PROVE  Safe'
<1>1. \A q \in Requests : req'[q] = IF q = r THEN h ELSE req[q]
  BY DEF Goto, Typed, TypeOK
<1>2. \A q \in Requests, t \in Tunnels : Working(q, t)' => Working(q, t)
  BY <1>1, NoneAssumption DEF Working, Continues
<1>3. \A t \in Tunnels : Known(t)' <=> Known(t)
  BY DEF Known, SameRows
<1>4. UnitsAreKnown'
  BY <1>3 DEF Safe, UnitsAreKnown, Known
<1>5. AppliesToKnown'
  <2>1. \A c \in late' : Applies(c)' => Known(c.tunnel)'
    BY <1>3 DEF Safe, AppliesToKnown, Applies, Typed, TypeOK, Command
  <2>2. ASSUME NEW q \in Requests, NEW t \in Tunnels,
               Working(q, t)' /\ req'[q].at \in {"send", "await"} /\ req'[q].op \in {"create", "update"}
        PROVE  Known(t)'
    BY <1>1, <1>2, <1>3, <2>2, NoneAssumption DEF Safe, AppliesToKnown, Working, Continues
  <2> QED BY <2>1, <2>2 DEF AppliesToKnown
<1>6. DeletesUnused'
  BY <1>1, <1>2, NoneAssumption DEF Safe, DeletesUnused, Working, Continues, At
<1>7. OneAtATime'
  BY <1>1, <1>2, NoneAssumption DEF Safe, OneAtATime, Working, Continues, At
<1> QED BY <1>4, <1>5, <1>6, <1>7 DEF Safe

LEMMA FinishSafe ==
    ASSUME Typed, Safe, NEW r \in Requests, Finish(r), SameRows,
           UNCHANGED <<server, unit, late, overlapped>>
    PROVE  Safe'
BY IdleTyped, ContinuesSafe DEF Finish, Continues, Idle

LEMMA MoveSafe ==
    ASSUME Typed, Safe, NEW r \in Requests, NEW stage \in Stages, Move(r, stage), SameRows,
           stage \in {"send", "await"} => req[r].at \in {"send", "await"},
           stage = "write" => req[r].op # "delete",
           req[r].at # "error",
           UNCHANGED <<server, unit, late, overlapped>>
    PROVE  Safe'
<1>1. [req[r] EXCEPT !.at = stage] \in Register
  BY DEF Typed, Registers, Register
<1>2. Continues(req[r], [req[r] EXCEPT !.at = stage])
  BY DEF Continues, Typed, Registers, Register
<1> QED BY <1>1, <1>2, ContinuesSafe DEF Move

LEMMA AfterFailureSafe ==
    ASSUME Typed, Safe, NEW r \in Requests, AfterFailure(r), SameRows, req[r].at # "error",
           UNCHANGED <<server, unit, late, overlapped>>
    PROVE  Safe'
BY FinishSafe, MoveSafe DEF AfterFailure, Stages

\* A request that begins on a tunnel in use marks the overlap.
LEMMA BeginSafe ==
    ASSUME Typed, Safe, NEW r \in Requests, NEW op \in Ops, NEW t \in Tunnels, NEW config,
           Begin(r, op, t, config), op \in {"create", "update"} => tunnel[t] # None
    PROVE  Safe'
<1> DEFINE h == [Idle EXCEPT !.at = "send", !.op = op, !.tunnel = t, !.config = config]
<1>1. \A q \in Requests : req'[q] = IF q = r THEN h ELSE req[q]
  BY DEF Begin, Goto, Typed, TypeOK
<1>2. h.at = "send" /\ h.op = op /\ h.tunnel = t
  BY DEF Idle
<1>3. /\ UNCHANGED <<server, tunnel, unit, late>>
      /\ overlapped' = IF UnderWay(t) THEN overlapped \cup {t} ELSE overlapped
  BY DEF Begin, rows
<1>4. \A u \in Tunnels : Known(u) => Known(u)'
  BY <1>3 DEF Known
<1>5. UnitsAreKnown'
  BY <1>3, <1>4 DEF Safe, UnitsAreKnown, Known
<1>6. AppliesToKnown'
  <2>1. \A c \in late' : Applies(c)' => Known(c.tunnel)'
    BY <1>3, <1>4 DEF Safe, AppliesToKnown, Applies, Typed, TypeOK, Command
  <2>2. ASSUME NEW q \in Requests, NEW u \in Tunnels,
               Working(q, u)' /\ req'[q].at \in {"send", "await"} /\ req'[q].op \in {"create", "update"}
        PROVE  Known(u)'
    BY <1>1, <1>2, <1>3, <1>4, <2>2 DEF Safe, AppliesToKnown, Working, Known
  <2> QED BY <2>1, <2>2 DEF AppliesToKnown
<1>7. DeletesUnused'
  BY <1>1, <1>2, <1>3 DEF Safe, DeletesUnused, Working, At
<1>8. OneAtATime'
  <2> SUFFICES ASSUME NEW u \in Tunnels, u \notin overlapped'
               PROVE  /\ \A p, q \in Requests : Working(p, u)' /\ Working(q, u)' => p = q
                      /\ \A q \in Requests : Working(q, u)' /\ ~At(q, "error")' =>
                           \A c \in late' : c.tunnel # u
    BY DEF OneAtATime
  <2>1. CASE u = t
    <3>1. (\A q \in Requests : ~Working(q, t)) /\ (\A c \in late : c.tunnel # t)
      BY <1>3, <2>1 DEF UnderWay
    <3> QED BY <1>1, <1>3, <2>1, <3>1 DEF Working
  <2>2. CASE u # t
    <3>1. \A q \in Requests : Working(q, u)' => q # r /\ req'[q] = req[q]
      BY <1>1, <1>2, <2>2 DEF Working
    <3>2. u \notin overlapped
      BY <1>3, <2>2
    <3> QED BY <1>3, <3>1, <3>2 DEF Safe, OneAtATime, Working, At
  <2> QED BY <2>1, <2>2
<1> QED BY <1>5, <1>6, <1>7, <1>8 DEF Safe

\* A creation begins on a tunnel nothing remembers.
LEMMA CreateBeginSafe ==
    ASSUME Typed, Safe, NEW r \in Requests, NEW t \in Tunnels, NEW config, NEW clients,
           CreateBegin(r, t, config, clients)
    PROVE  Safe'
<1> DEFINE h == [Idle EXCEPT !.at = "insert", !.op = "create", !.tunnel = t,
                             !.config = config, !.todo = clients]
<1>1. \A q \in Requests : req'[q] = IF q = r THEN h ELSE req[q]
  BY DEF CreateBegin, Goto, Typed, TypeOK
<1>2. h.at = "insert" /\ h.op = "create" /\ h.tunnel = t
  BY DEF Idle
<1>3. UNCHANGED <<server, tunnel, unit, late, overlapped>>
  BY DEF CreateBegin, LocalStep, rows, history
<1>4. (\A q \in Requests : ~Working(q, t)) /\ (\A c \in late : c.tunnel # t)
  BY DEF CreateBegin, Free, UnderWay
<1>5. UnitsAreKnown' /\ AppliesToKnown' /\ DeletesUnused'
  BY <1>1, <1>2, <1>3 DEF Safe, UnitsAreKnown, AppliesToKnown, DeletesUnused, Known, Working, At, Applies
<1>6. \A q \in Requests, u \in Tunnels : Working(q, u)' => (q = r /\ u = t) \/ (u # t /\ q # r /\ req'[q] = req[q])
  BY <1>1, <1>2, <1>4 DEF Working
<1>7. OneAtATime'
  BY <1>3, <1>4, <1>6 DEF Safe, OneAtATime, Working, At
<1> QED BY <1>5, <1>7 DEF Safe

\* The row is there before a command is sent for it.
LEMMA CreateInsertSafe ==
    ASSUME Typed, Safe, NEW r \in Requests, CreateInsert(r)
    PROVE  Safe'
<1> DEFINE t == req[r].tunnel
           record == [config |-> req[r].config, status |-> "pending"]
<1>1. UNCHANGED <<server, unit, late, overlapped>>
  BY DEF CreateInsert, outline, history
<1>2. CASE ~server
  BY <1>1, <1>2, FinishSafe DEF CreateInsert, SameRows
<1>3. CASE server
  <2>1. req[r].at = "insert" /\ t \in Tunnels /\ req[r].op = "create" /\ req[r].config \in Configs
    BY DEF CreateInsert, At, Typed, Registers, WellFormed, TunnelStages
  <2>2. record # None
    BY <2>1, NoneIsNoRow DEF Row
  <2>3. /\ tunnel' = [tunnel EXCEPT ![t] = record]
        /\ Move(r, "send")
    BY <1>3 DEF CreateInsert
  <2>4. \A q \in Requests : req'[q] = IF q = r THEN [req[r] EXCEPT !.at = "send"] ELSE req[q]
    BY <2>3 DEF Move, Goto, Typed, TypeOK
  <2>5. req'[r].at = "send" /\ req'[r].tunnel = t /\ req'[r].op = "create"
    BY <2>1, <2>4 DEF Typed, Registers, Register
  <2>6. tunnel'[t] # None /\ \A u \in Tunnels : Known(u) => Known(u)'
    BY <1>1, <2>1, <2>2, <2>3 DEF Known, Typed, TypeOK
  <2>7. \A q \in Requests, u \in Tunnels : Working(q, u)' => Working(q, u)
    BY <2>4, <2>5 DEF Working
  <2>8. UnitsAreKnown'
    BY <1>1, <2>6 DEF Safe, UnitsAreKnown, Known
  <2>9. AppliesToKnown'
    <3>1. \A c \in late' : Applies(c)' => Known(c.tunnel)'
      BY <1>1, <2>6 DEF Safe, AppliesToKnown, Applies, Typed, TypeOK, Command
    <3>2. ASSUME NEW q \in Requests, NEW u \in Tunnels,
                 Working(q, u)' /\ req'[q].at \in {"send", "await"} /\ req'[q].op \in {"create", "update"}
          PROVE  Known(u)'
      BY <2>4, <2>5, <2>6, <3>2 DEF Safe, AppliesToKnown, Working, Known
    <3> QED BY <3>1, <3>2 DEF AppliesToKnown
  <2>10. DeletesUnused'
    BY <1>1, <2>4, <2>5 DEF Safe, DeletesUnused, Working, At
  <2>11. OneAtATime'
    BY <1>1, <2>1, <2>4, <2>7 DEF Safe, OneAtATime, Working, At
  <2> QED BY <2>8, <2>9, <2>10, <2>11 DEF Safe
<1> QED BY <1>2, <1>3

\* A command of a request, or a late one, whose unit may change: if it puts one
\* on the host its tunnel is known, and no deletion has gone past it.
LEMMA UnitChange ==
    ASSUME Typed, Safe, NEW c \in Command, RunsWell(c) \/ RunsBadly(c),
           Applies(c) => Known(c.tunnel), UNCHANGED <<server, tunnel, overlapped>>
    PROVE  /\ UnitsAreKnown'
           /\ \A t \in Tunnels : t # c.tunnel => unit'[t] = unit[t]
<1>1. c.tunnel \in Tunnels
  BY DEF Command
<1>2. \A t \in Tunnels : t # c.tunnel => unit'[t] = unit[t]
  BY <1>1 DEF RunsWell, RunsBadly, Typed, TypeOK
<1>3. Applies(c) \/ unit'[c.tunnel] \in {None, unit[c.tunnel]}
  BY <1>1 DEF RunsWell, RunsBadly, Typed, TypeOK
<1>4. UnitsAreKnown'
  BY <1>1, <1>2, <1>3 DEF Safe, UnitsAreKnown, Known
<1> QED BY <1>2, <1>4

LEMMA CommandFacts ==
    ASSUME Typed, Safe, NEW r \in Requests, At(r, "await")
    PROVE  /\ CommandOf(r) \in Command /\ CommandOf(r).tunnel = req[r].tunnel
           /\ req[r].tunnel \in Tunnels /\ CommandOf(r).op = req[r].op
           /\ Applies(CommandOf(r)) => Known(CommandOf(r).tunnel)
<1>1. /\ CommandOf(r) \in Command /\ CommandOf(r).tunnel = req[r].tunnel
      /\ req[r].tunnel \in Tunnels /\ CommandOf(r).op = req[r].op
  BY DEF Typed, Registers, Register, WellFormed, TunnelStages, CommandOf, Command, At
<1> QED BY <1>1 DEF Safe, AppliesToKnown, Applies, Working, At

\* While r waits for a command, no other request is about to delete its row.
LEMMA Alone ==
    ASSUME Typed, Safe, NEW r \in Requests, At(r, "await") \/ At(r, "write"),
           req[r].tunnel \notin overlapped, req[r].tunnel \in Tunnels
    PROVE  /\ \A q \in Requests : Working(q, req[r].tunnel) => q = r
           /\ \A c \in late : c.tunnel # req[r].tunnel
BY DEF Safe, OneAtATime, Working, At

LEMMA RunSafe ==
    ASSUME Typed, Safe, NEW r \in Requests, Run(r)
    PROVE  Safe'
<1> DEFINE t == req[r].tunnel
<1>1. At(r, "await") /\ RunsWell(CommandOf(r)) /\ UNCHANGED <<server, tunnel, late, overlapped>>
  BY DEF Run, rows
<1>2. UnitsAreKnown' /\ \A u \in Tunnels : u # t => unit'[u] = unit[u]
  BY <1>1, CommandFacts, UnitChange
<1>3. \A q \in Requests : q # r => req'[q] = req[q]
  BY DEF Run, Finish, Move, Goto, Typed, TypeOK
<1>4. \/ req'[r].tunnel = None
      \/ req'[r].tunnel = t /\ req'[r].op = req[r].op /\ req'[r].at = "write"
  BY DEF Run, Finish, Move, Goto, Typed, TypeOK, Registers, Register, Idle
<1>5. req[r].op = "delete" => unit'[t] = None
  BY <1>1, CommandFacts DEF RunsWell, Applies, Typed, TypeOK
<1>6. \A q \in Requests, u \in Tunnels : Working(q, u)' => Working(q, u)
  BY <1>3, <1>4, NoneAssumption DEF Working
<1>7. AppliesToKnown'
  BY <1>1, <1>3, <1>4, NoneAssumption DEF Safe, AppliesToKnown, Applies, Known, Working
<1>8. DeletesUnused'
  <2>1. ASSUME NEW q \in Requests, NEW u \in Tunnels, u \notin overlapped,
               Working(q, u)' /\ At(q, "write")' /\ req'[q].op = "delete"
        PROVE  unit'[u] = None \/ ~server
    <3>1. CASE q = r
      BY <1>4, <1>5, <2>1, <3>1, NoneAssumption DEF Working
    <3>2. CASE q # r
      <4>1. u # t
        BY <1>1, <1>3, <2>1, <3>2, Alone, CommandFacts DEF Working
      <4> QED BY <1>2, <1>3, <2>1, <3>2, <4>1 DEF Safe, DeletesUnused, Working, At
    <3> QED BY <3>1, <3>2
  <2> QED BY <1>1, <2>1 DEF DeletesUnused
<1>9. OneAtATime'
  BY <1>1, <1>3, <1>4, <1>6, NoneAssumption DEF Safe, OneAtATime, Working, At
<1> QED BY <1>2, <1>7, <1>8, <1>9 DEF Safe

LEMMA RunFailsSafe ==
    ASSUME Typed, Safe, NEW r \in Requests, RunFails(r)
    PROVE  Safe'
<1> DEFINE t == req[r].tunnel
<1>1. At(r, "await") /\ RunsBadly(CommandOf(r)) /\ UNCHANGED <<server, tunnel, late, overlapped>>
  BY DEF RunFails, rows
<1>2. UnitsAreKnown' /\ \A u \in Tunnels : u # t => unit'[u] = unit[u]
  BY <1>1, CommandFacts, UnitChange
<1>3. \A q \in Requests : q # r => req'[q] = req[q]
  BY DEF RunFails, AfterFailure, Finish, Move, Goto, Typed, TypeOK
<1>4. \/ req'[r].tunnel = None
      \/ req'[r].tunnel = t /\ req'[r].at = "error"
  BY DEF RunFails, AfterFailure, Finish, Move, Goto, Typed, TypeOK, Registers, Register, Idle
<1>5. \A q \in Requests, u \in Tunnels : Working(q, u)' => Working(q, u)
  BY <1>3, <1>4, NoneAssumption DEF Working
<1>6. AppliesToKnown'
  BY <1>1, <1>3, <1>4, NoneAssumption DEF Safe, AppliesToKnown, Applies, Known, Working
<1>7. DeletesUnused'
  <2>1. ASSUME NEW q \in Requests, NEW u \in Tunnels, u \notin overlapped,
               Working(q, u)' /\ At(q, "write")' /\ req'[q].op = "delete"
        PROVE  unit'[u] = None \/ ~server
    <3>1. q # r
      BY <1>4, <2>1, NoneAssumption DEF Working, At
    <3>2. u # t
      BY <1>1, <1>3, <2>1, <3>1, Alone, CommandFacts DEF Working
    <3> QED BY <1>2, <1>3, <2>1, <3>1, <3>2 DEF Safe, DeletesUnused, Working, At
  <2> QED BY <1>1, <2>1 DEF DeletesUnused
<1>8. OneAtATime'
  BY <1>1, <1>3, <1>4, <1>5, NoneAssumption DEF Safe, OneAtATime, Working, At
<1> QED BY <1>2, <1>6, <1>7, <1>8 DEF Safe

LEMMA RunLateSafe ==
    ASSUME Typed, Safe, NEW c \in late, RunLate(c)
    PROVE  Safe'
<1>1. UNCHANGED <<server, tunnel, req, overlapped>> /\ late' \subseteq late
  BY DEF RunLate, rows, history
<1>2. c \in Command /\ (Applies(c) => Known(c.tunnel))
  BY DEF Typed, TypeOK, Safe, AppliesToKnown
<1>3. UnitsAreKnown' /\ \A u \in Tunnels : u # c.tunnel => unit'[u] = unit[u]
  BY <1>1, <1>2, UnitChange DEF RunLate
<1>4. AppliesToKnown' /\ OneAtATime'
  BY <1>1 DEF Safe, AppliesToKnown, OneAtATime, Applies, Known, Working, At
<1>5. DeletesUnused'
  <2>1. ASSUME NEW q \in Requests, NEW u \in Tunnels, u \notin overlapped,
               Working(q, u) /\ At(q, "write") /\ req[q].op = "delete"
        PROVE  unit'[u] = None \/ ~server
    <3>1. u # c.tunnel
      BY <2>1, Alone DEF Working
    <3> QED BY <1>3, <2>1, <3>1 DEF Safe, DeletesUnused
  <2> QED BY <1>1, <2>1 DEF DeletesUnused, Working, At
<1> QED BY <1>3, <1>4, <1>5 DEF Safe

LEMMA GiveUpSafe ==
    ASSUME Typed, Safe, NEW r \in Requests, GiveUp(r)
    PROVE  Safe'
<1> DEFINE t == req[r].tunnel
<1>1. /\ At(r, "await") /\ UNCHANGED <<server, tunnel, unit, overlapped>>
      /\ late' = late \cup {CommandOf(r)}
  BY DEF GiveUp, rows
<1>2. \A q \in Requests : q # r => req'[q] = req[q]
  BY DEF GiveUp, AfterFailure, Finish, Move, Goto, Typed, TypeOK
<1>3. \/ req'[r].tunnel = None
      \/ req'[r].tunnel = t /\ req'[r].at = "error"
  BY DEF GiveUp, AfterFailure, Finish, Move, Goto, Typed, TypeOK, Registers, Register, Idle
<1>4. \A q \in Requests, u \in Tunnels : Working(q, u)' => Working(q, u)
  BY <1>2, <1>3, NoneAssumption DEF Working
<1>5. UnitsAreKnown'
  BY <1>1 DEF Safe, UnitsAreKnown
<1>6. AppliesToKnown'
  <2>1. \A c \in late' : Applies(c) => Known(c.tunnel)
    BY <1>1, CommandFacts DEF Safe, AppliesToKnown
  <2>2. \A q \in Requests, u \in Tunnels :
          (Working(q, u)' /\ req'[q].at \in {"send", "await"} /\ req'[q].op \in {"create", "update"})
          => Known(u)
    BY <1>2, <1>3, NoneAssumption DEF Safe, AppliesToKnown, Working
  <2> QED BY <1>1, <2>1, <2>2 DEF AppliesToKnown, Known, Applies
<1>7. DeletesUnused'
  BY <1>1, <1>2, <1>3, NoneAssumption DEF Safe, DeletesUnused, Working, At
<1>8. OneAtATime'
  <2> SUFFICES ASSUME NEW u \in Tunnels, u \notin overlapped
               PROVE  /\ \A p, q \in Requests : Working(p, u)' /\ Working(q, u)' => p = q
                      /\ \A q \in Requests : Working(q, u)' /\ ~At(q, "error")' =>
                           \A c \in late' : c.tunnel # u
    BY <1>1 DEF OneAtATime
  <2>1. CASE u = t
    BY <1>1, <1>2, <1>3, <1>4, <2>1, Alone, NoneAssumption DEF Working, At
  <2>2. CASE u # t
    BY <1>1, <1>2, <1>3, <1>4, <2>2, CommandFacts DEF Safe, OneAtATime, Working, At
  <2> QED BY <2>1, <2>2
<1> QED BY <1>5, <1>6, <1>7, <1>8 DEF Safe

LEMMA NotedSameRows ==
    ASSUME Typed, NEW t \in Tunnels, NEW config, NEW status \in {"pending", "active", "error"},
           tunnel[t] # None => config \in Configs,
           tunnel' = Noted(t, config, status)
    PROVE  SameRows
BY NoneIsNoRow DEF Noted, SameRows, Row, Typed, TypeOK

\* The row of a deleted tunnel goes when its unit is gone and nobody else works on it.
LEMMA DeleteRowSafe ==
    ASSUME Typed, Safe, NEW r \in Requests, At(r, "write"), req[r].op = "delete",
           tunnel' = [tunnel EXCEPT ![req[r].tunnel] = None], Finish(r),
           UNCHANGED <<server, unit, late, overlapped>>
    PROVE  Safe'
<1> DEFINE t == req[r].tunnel
<1>1. t \in Tunnels
  BY DEF At, Typed, Registers, WellFormed, TunnelStages
<1>2. \A q \in Requests : req'[q] = IF q = r THEN Idle ELSE req[q]
  BY DEF Finish, Goto, Typed, TypeOK
<1>3. \A u \in Tunnels : tunnel'[u] = IF u = t THEN None ELSE tunnel[u]
  BY <1>1 DEF Typed, TypeOK
<1>4. \A q \in Requests, u \in Tunnels : Working(q, u)' => q # r /\ Working(q, u) /\ req'[q] = req[q]
  BY <1>2, NoneAssumption DEF Working, Idle
<1>5. unit[t] = None \/ ~server \/ t \in overlapped
  BY <1>1 DEF Safe, DeletesUnused, Working
<1>6. UnitsAreKnown'
  BY <1>3, <1>5 DEF Safe, UnitsAreKnown
<1>7. t \notin overlapped =>
        /\ \A q \in Requests : q # r => ~Working(q, t)
        /\ \A c \in late : c.tunnel # t
  BY <1>1, Alone DEF Working
<1>8. \A u \in Tunnels : Known(u) => Known(u)' \/ u = t
  BY <1>3 DEF Known
<1>9. AppliesToKnown'
  <2>1. \A c \in late : Applies(c) => Known(c.tunnel)'
    BY <1>7, <1>8 DEF Safe, AppliesToKnown, Known, Typed, TypeOK, Command
  <2>2. \A q \in Requests, u \in Tunnels :
          (Working(q, u)' /\ req'[q].at \in {"send", "await"} /\ req'[q].op \in {"create", "update"})
          => Known(u)'
    BY <1>4, <1>7, <1>8 DEF Safe, AppliesToKnown, Known
  <2> QED BY <2>1, <2>2 DEF AppliesToKnown, Applies
<1>10. DeletesUnused'
  BY <1>4 DEF Safe, DeletesUnused, At
<1>11. OneAtATime'
  BY <1>4 DEF Safe, OneAtATime, At
<1> QED BY <1>6, <1>9, <1>10, <1>11 DEF Safe

LEMMA WriteSafe ==
    ASSUME Typed, Safe, NEW r \in Requests, Write(r) \/ WriteError(r)
    PROVE  Safe'
<1> DEFINE t == req[r].tunnel
<1>1. req[r].at \in {"write", "error"} /\ t \in Tunnels
  BY DEF Write, WriteError, At, Typed, Registers, WellFormed, TunnelStages
<1>2. UNCHANGED <<server, unit, late, overlapped>>
  BY DEF Write, WriteError, outline, history
<1>3. tunnel[t] # None => Config(t) \in Configs
  BY <1>1, ConfigTyped DEF Typed, TypeOK
<1>4. CASE WriteError(r)
  BY <1>1, <1>2, <1>3, <1>4, NotedSameRows, FinishSafe DEF WriteError
<1>5. CASE Write(r) /\ req[r].op = "delete"
  BY <1>2, <1>5, DeleteRowSafe DEF Write
<1>6. CASE Write(r) /\ req[r].op # "delete"
  <2>1. req[r].op = "update" => req[r].config \in Configs
    BY <1>6 DEF Write, At, Typed, Registers, WellFormed
  <2>2. SameRows
    BY <1>1, <1>3, <1>6, <2>1, NotedSameRows DEF Write
  <2> QED BY <1>2, <1>6, <2>2, FinishSafe, MoveSafe DEF Write, At, Stages
<1> QED BY <1>4, <1>5, <1>6

\* Steps that change neither units nor which rows there are.
LEMMA CalmStepSafe ==
    ASSUME Typed, Safe, NEW r \in Requests,
           \/ Send(r) \/ Reread(r) \/ (\E u \in Users : Link(r, u)) \/ LinkWrite(r) \/ LinksDone(r)
           \/ KeyLimit(r) \/ KeySave(r) \/ KeyDelete(r) \/ KeyDrop(r)
           \/ WriteFails(r) \/ Fails(r)
           \/ \E k \in Keys : KeyCreate(r, k) \/ KeyDeleteBegin(r, k)
    PROVE  Safe'
<1>1. UNCHANGED <<server, tunnel, unit, late, overlapped>>
  BY DEF Send, Reread, Link, LinkWrite, LinksDone, KeyLimit, KeySave, KeyDelete, KeyDrop, WriteFails,
         Fails, KeyCreate, KeyDeleteBegin, LocalStep, rows, outline, history
<1>2. SameRows
  BY <1>1 DEF SameRows
<1>3. CASE Finish(r) \/ (AfterFailure(r) /\ req[r].at # "error")
  BY <1>1, <1>2, <1>3, FinishSafe, AfterFailureSafe
<1>4. ASSUME NEW stage \in {"await", "link", "save", "key-drop"}, Move(r, stage), req[r].at # "error",
             stage = "await" => req[r].at = "send"
      PROVE  Safe'
  BY <1>1, <1>2, <1>4, MoveSafe DEF Stages
<1>5. ASSUME NEW u \in Users, Link(r, u)
      PROVE  Safe'
  <2> DEFINE h == [req[r] EXCEPT !.at = "link-write", !.user = u, !.seen = links[u],
                                 !.todo = @ \ {u}]
  <2>1. h \in Register /\ Continues(req[r], h)
    BY <1>5, ZenonT(30) DEF Link, At, Continues, Typed, TypeOK, Registers, Register, Stages
  <2> QED BY <1>1, <1>2, <1>5, <2>1, ContinuesSafe DEF Link
<1>6. ASSUME NEW u \in req[r].todo, At(r, "link"), Goto(r, [req[r] EXCEPT !.todo = @ \ {u}])
      PROVE  Safe'
  <2>1. /\ [req[r] EXCEPT !.todo = @ \ {u}] \in Register
        /\ Continues(req[r], [req[r] EXCEPT !.todo = @ \ {u}])
    BY <1>6 DEF At, Continues, Typed, Registers, Register
  <2> QED BY <1>1, <1>2, <1>6, <2>1, ContinuesSafe
<1>7. ASSUME NEW k \in Keys, KeyCreate(r, k)
      PROVE  Safe'
  <2>1. /\ [Idle EXCEPT !.at = "limit", !.key = k] \in Register
        /\ Continues(req[r], [Idle EXCEPT !.at = "limit", !.key = k])
    BY DEF Idle, Register, Stages, Ops, Continues
  <2> QED BY <1>1, <1>2, <1>7, <2>1, ContinuesSafe DEF KeyCreate
<1>8. ASSUME NEW k \in Keys, KeyDeleteBegin(r, k)
      PROVE  Safe'
  <2>1. /\ [Idle EXCEPT !.at = "key-delete", !.key = k] \in Register
        /\ Continues(req[r], [Idle EXCEPT !.at = "key-delete", !.key = k])
    BY DEF Idle, Register, Stages, Ops, Continues
  <2> QED BY <1>1, <1>2, <1>8, <2>1, ContinuesSafe DEF KeyDeleteBegin
<1>9. CASE Send(r)
  BY <1>3, <1>4, <1>9 DEF Send, At
<1>10. CASE Reread(r) \/ LinkWrite(r) \/ LinksDone(r)
  BY <1>3, <1>4, <1>10 DEF Reread, LinkWrite, LinksDone, At
<1>11. CASE KeyLimit(r) \/ KeySave(r) \/ KeyDelete(r) \/ KeyDrop(r)
  BY <1>3, <1>4, <1>11 DEF KeyLimit, KeySave, KeyDelete, KeyDrop, At
<1>12. CASE WriteFails(r)
  BY <1>3, <1>12 DEF WriteFails, At
<1>13. CASE Fails(r)
  BY <1>3, <1>4, <1>6, <1>13 DEF Fails, At
<1> QED BY <1>5, <1>7, <1>8, <1>9, <1>10, <1>11, <1>12, <1>13

LEMMA ArriveSafe ==
    ASSUME Typed, Safe, NEW r \in Requests, Arrive(r)
    PROVE  Safe'
<1>1. ASSUME NEW t \in Tunnels, NEW c \in Configs, Update(r, t, c)
      PROVE  Safe'
  BY <1>1, BeginSafe DEF Update, Ops
<1>2. ASSUME NEW t \in Tunnels, RestartTunnel(r, t) \/ Delete(r, t) \/ RemoveService(r, t)
      PROVE  Safe'
  BY <1>2, BeginSafe DEF RestartTunnel, Delete, RemoveService, Ops
<1> QED BY <1>1, <1>2, CreateBeginSafe, CalmStepSafe DEF Arrive

LEMMA PanelSafe ==
    ASSUME Typed, Safe, DeleteServer \/ Restart
    PROVE  Safe'
<1>1. CASE DeleteServer
  BY <1>1 DEF DeleteServer, history, Safe, UnitsAreKnown, AppliesToKnown, DeletesUnused, OneAtATime,
              Known, Working, At
<1>2. CASE Restart
  <2>1. /\ UNCHANGED <<server, tunnel, unit, overlapped>>
        /\ late' = late \cup {CommandOf(r) : r \in {q \in Requests : At(q, "await")}}
        /\ \A r \in Requests : req'[r] = Idle
    BY <1>2 DEF Restart, rows
  <2>2. \A r \in Requests, t \in Tunnels : ~Working(r, t)'
    BY <2>1, NoneAssumption DEF Working, Idle
  <2>3. \A c \in late' : Applies(c) => Known(c.tunnel)
    BY <2>1, CommandFacts DEF Safe, AppliesToKnown
  <2> QED BY <2>1, <2>2, <2>3 DEF Safe, UnitsAreKnown, AppliesToKnown, DeletesUnused, OneAtATime, Known,
                                  Applies
<1> QED BY <1>1, <1>2

LEMMA InitSafe == Init => Safe
<1> SUFFICES ASSUME Init PROVE Safe
  OBVIOUS
<1>1. \A r \in Requests, t \in Tunnels : ~Working(r, t)
  BY NoneAssumption DEF Init, Working, Idle
<1> QED BY <1>1 DEF Init, Safe, UnitsAreKnown, AppliesToKnown, DeletesUnused, OneAtATime

LEMMA NextSafe == IInv /\ [Next]_vars => Safe'
<1> SUFFICES ASSUME Typed, Safe, [Next]_vars PROVE Safe'
  BY DEF IInv
<1>1. ASSUME NEW r \in Requests, Continue(r) \/ GiveUp(r) \/ WriteFails(r) \/ Fails(r)
      PROVE  Safe'
  BY <1>1, CreateInsertSafe, RunSafe, RunFailsSafe, WriteSafe, GiveUpSafe, CalmStepSafe DEF Continue
<1>2. CASE UNCHANGED vars
  BY <1>2 DEF vars, rows, history, Safe, UnitsAreKnown, AppliesToKnown, DeletesUnused, OneAtATime,
              Known, Working, At, Applies
<1> QED BY <1>1, <1>2, ArriveSafe, RunLateSafe, PanelSafe DEF Next

\* Wherever a creation, an update or a deletion stops, and whatever late
\* commands do, a unit on the host has its row, unless the row was deleted
\* beside another command or with the server.
THEOREM UnitsStayKnown == Spec => []UnitsAreKnown
<1>1. Init => IInv
  BY InitTyped, InitSafe DEF IInv
<1>2. IInv /\ [Next]_vars => IInv'
  BY NextTyped, NextSafe DEF IInv
<1>3. IInv => UnitsAreKnown
  BY DEF IInv, Safe
<1> QED BY <1>1, <1>2, <1>3, PTL DEF Spec

-----------------------------------------------------------------------------
(* Keys *)

\* A key about to be saved has its limit, unless Outline has lost it.
SavedIsLimited ==
    \A r \in Requests : (At(r, "save") /\ req[r].key \in remoteKey) => req[r].key \in limited
KeysSafe == ListedKeysAreLimited /\ SavedIsLimited

\* Who is about to save a key was so before, with the same key.
SameSaves == \A q \in Requests : At(q, "save")' => At(q, "save") /\ req'[q] = req[q]

LEMMA GotoOthers ==
    ASSUME Typed, NEW r \in Requests, NEW h, Goto(r, h)
    PROVE  \A q \in Requests : req'[q] = IF q = r THEN h ELSE req[q]
BY DEF Goto, Typed, TypeOK

LEMMA GotoSaves ==
    ASSUME Typed, NEW r \in Requests, NEW h, Goto(r, h), h.at # "save"
    PROVE  SameSaves
BY GotoOthers DEF SameSaves, At

LEMMA MoveSaves ==
    ASSUME Typed, NEW r \in Requests,
           \/ Finish(r) \/ AfterFailure(r)
           \/ \E stage \in Stages \ {"save"} : Move(r, stage)
    PROVE  SameSaves
<1>1. ASSUME NEW stage, stage # "save", Move(r, stage)
      PROVE  SameSaves
  <2>1. [req[r] EXCEPT !.at = stage].at = stage
    BY DEF Typed, Registers, Register
  <2> QED BY <1>1, <2>1, GotoSaves DEF Move
<1>2. CASE Finish(r)
  BY <1>2, GotoSaves DEF Finish, Idle
<1> QED BY <1>1, <1>2 DEF AfterFailure

\* What is not about keys leaves them, and those about to be saved, alone.
LEMMA TunnelStepKeys ==
    ASSUME Typed, NEW r \in Requests,
           \/ CreateInsert(r) \/ Send(r) \/ Run(r) \/ RunFails(r) \/ Write(r) \/ WriteError(r)
           \/ Reread(r) \/ (\E u \in Users : Link(r, u)) \/ LinkWrite(r) \/ LinksDone(r)
           \/ GiveUp(r) \/ WriteFails(r) \/ Fails(r)
    PROVE  UNCHANGED outline /\ SameSaves
<1>1. ASSUME NEW u \in Users, Link(r, u)
      PROVE  SameSaves
  <2>1. [req[r] EXCEPT !.at = "link-write", !.user = u, !.seen = links[u],
                       !.todo = @ \ {u}].at # "save"
    BY DEF Typed, Registers, Register
  <2> QED BY <1>1, <2>1, GotoSaves DEF Link
<1>2. ASSUME NEW u, At(r, "link"), Goto(r, [req[r] EXCEPT !.todo = @ \ {u}])
      PROVE  SameSaves
  <2>1. [req[r] EXCEPT !.todo = @ \ {u}].at # "save"
    BY <1>2 DEF At, Typed, Registers, Register
  <2> QED BY <1>2, <2>1, GotoSaves
<1>3. CASE CreateInsert(r)
  BY <1>3, MoveSaves DEF CreateInsert, Stages
<1>4. CASE Send(r) \/ Run(r) \/ RunFails(r)
  BY <1>4, MoveSaves DEF Send, LocalStep, Run, RunFails, Stages
<1>5. CASE Write(r) \/ WriteError(r)
  BY <1>5, MoveSaves DEF Write, WriteError, Stages
<1>6. CASE Reread(r) \/ LinkWrite(r) \/ LinksDone(r)
  BY <1>6, MoveSaves DEF Reread, LinkWrite, LinksDone, LocalStep, Stages
<1>7. CASE GiveUp(r) \/ WriteFails(r)
  BY <1>7, MoveSaves DEF GiveUp, WriteFails
<1>8. CASE Fails(r)
  BY <1>2, <1>8, MoveSaves DEF Fails, Stages
<1>9. CASE \E u \in Users : Link(r, u)
  BY <1>1, <1>9 DEF Link, LocalStep
<1> QED BY <1>3, <1>4, <1>5, <1>6, <1>7, <1>8, <1>9

LEMMA BeginKeys ==
    ASSUME Typed, NEW r \in Requests, NEW t \in Tunnels, NEW c,
           \/ \E op \in Ops : Begin(r, op, t, c)
           \/ \E clients : CreateBegin(r, t, c, clients)
    PROVE  UNCHANGED outline /\ SameSaves
<1>1. ASSUME NEW op \in Ops, Begin(r, op, t, c)
      PROVE  SameSaves
  BY <1>1, GotoSaves DEF Begin, Idle
<1>2. ASSUME NEW clients, CreateBegin(r, t, c, clients)
      PROVE  SameSaves
  BY <1>2, GotoSaves DEF CreateBegin, Idle
<1> QED BY <1>1, <1>2 DEF Begin, CreateBegin, LocalStep

LEMMA QuietKeys ==
    ASSUME KeysSafe, UNCHANGED outline, SameSaves
    PROVE  KeysSafe'
BY DEF KeysSafe, ListedKeysAreLimited, SavedIsLimited, SameSaves, outline, At

\* Steps on keys: a new key is nobody's yet, and a lost one is without a limit.
LEMMA KeyStepKeys ==
    ASSUME Typed, KeysSafe, NEW r \in Requests,
           \/ \E k \in Keys : KeyCreate(r, k) \/ KeyDeleteBegin(r, k)
           \/ KeyLimit(r) \/ KeySave(r) \/ KeyDelete(r) \/ KeyDrop(r)
    PROVE  KeysSafe'
<1>1. ASSUME NEW k \in Keys, KeyCreate(r, k)
      PROVE  KeysSafe'
  <2>1. \A q \in Requests : At(q, "save")' => At(q, "save") /\ req'[q] = req[q] /\ req[q].key # k
    <3>1. \A q \in Requests : req[q].key # k
      BY <1>1 DEF KeyCreate
    <3>2. SameSaves
      BY <1>1, GotoSaves DEF KeyCreate, Idle
    <3> QED BY <3>1, <3>2 DEF SameSaves
  <2> QED BY <1>1, <2>1 DEF KeyCreate, KeysSafe, ListedKeysAreLimited, SavedIsLimited, At
<1>2. ASSUME NEW k \in Keys, KeyDeleteBegin(r, k)
      PROVE  KeysSafe'
  <2>1. SameSaves
    BY <1>2, GotoSaves DEF KeyDeleteBegin, Idle
  <2> QED BY <1>2, <2>1, QuietKeys DEF KeyDeleteBegin, LocalStep
<1>3. CASE KeyLimit(r)
  <2>1. CASE req[r].key \in remoteKey
    <3>1. req' = [req EXCEPT ![r] = [req[r] EXCEPT !.at = "save"]] /\ [req[r] EXCEPT !.at = "save"].key = req[r].key
      BY <1>3, <2>1 DEF KeyLimit, Move, Goto, Typed, Registers, Register
    <3>2. \A q \in Requests : At(q, "save")' => /\ req'[q].key = req[q].key
                                                /\ q = r \/ At(q, "save")
      BY <3>1 DEF At, Typed, TypeOK
    <3>3. limited' = limited \cup {req[r].key} /\ UNCHANGED <<key, remoteKey>>
      BY <1>3, <2>1 DEF KeyLimit
    <3> QED BY <3>2, <3>3 DEF KeysSafe, ListedKeysAreLimited, SavedIsLimited
  <2>2. CASE req[r].key \notin remoteKey
    <3>1. SameSaves /\ UNCHANGED outline
      BY <1>3, <2>2, MoveSaves DEF KeyLimit, outline
    <3> QED BY <3>1, QuietKeys
  <2> QED BY <2>1, <2>2
<1>4. CASE KeySave(r)
  <2>1. SameSaves
    BY <1>4, MoveSaves DEF KeySave
  <2>2. /\ key' \subseteq key \cup {req[r].key} /\ UNCHANGED <<remoteKey, limited>>
        /\ At(r, "save")
    BY <1>4 DEF KeySave
  <2> QED BY <2>1, <2>2 DEF KeysSafe, ListedKeysAreLimited, SavedIsLimited, SameSaves, At
<1>5. CASE KeyDelete(r)
  <2>1. SameSaves
    BY <1>5, MoveSaves DEF KeyDelete, Stages
  <2>2. /\ remoteKey' = remoteKey \ {req[r].key} /\ limited' = limited \ {req[r].key}
        /\ UNCHANGED key
    BY <1>5 DEF KeyDelete
  <2> QED BY <2>1, <2>2 DEF KeysSafe, ListedKeysAreLimited, SavedIsLimited, SameSaves, At
<1>6. CASE KeyDrop(r)
  <2>1. SameSaves /\ key' \subseteq key /\ UNCHANGED <<remoteKey, limited>>
    BY <1>6, MoveSaves DEF KeyDrop
  <2> QED BY <2>1 DEF KeysSafe, ListedKeysAreLimited, SavedIsLimited, SameSaves, At
<1> QED BY <1>1, <1>2, <1>3, <1>4, <1>5, <1>6

LEMMA NextKeys == Typed /\ KeysSafe /\ [Next]_vars => KeysSafe'
<1> SUFFICES ASSUME Typed, KeysSafe, [Next]_vars PROVE KeysSafe'
  OBVIOUS
<1>1. ASSUME NEW r \in Requests, Arrive(r)
      PROVE  KeysSafe'
  <2>1. ASSUME NEW t \in Tunnels, NEW c \in Configs, NEW clients, CreateBegin(r, t, c, clients)
        PROVE  KeysSafe'
    BY <2>1, BeginKeys, QuietKeys
  <2>2. ASSUME NEW t \in Tunnels, NEW c \in Configs, Update(r, t, c)
        PROVE  KeysSafe'
    BY <2>2, BeginKeys, QuietKeys DEF Update, Ops
  <2>3. ASSUME NEW t \in Tunnels, RestartTunnel(r, t) \/ Delete(r, t) \/ RemoveService(r, t)
        PROVE  KeysSafe'
    BY <2>3, BeginKeys, QuietKeys DEF RestartTunnel, Delete, RemoveService, Ops
  <2> QED BY <1>1, <2>1, <2>2, <2>3, KeyStepKeys DEF Arrive
<1>2. ASSUME NEW r \in Requests, Continue(r) \/ GiveUp(r) \/ WriteFails(r) \/ Fails(r)
      PROVE  KeysSafe'
  BY <1>2, TunnelStepKeys, KeyStepKeys, QuietKeys DEF Continue
<1>3. CASE (\E c \in late : RunLate(c)) \/ DeleteServer
  BY <1>3 DEF RunLate, DeleteServer, outline, KeysSafe, ListedKeysAreLimited, SavedIsLimited, At
<1>4. CASE Restart
  <2>1. \A q \in Requests : ~At(q, "save")'
    BY <1>4 DEF Restart, At, Idle
  <2> QED BY <1>4, <2>1, QuietKeys DEF Restart, SameSaves
<1>5. CASE UNCHANGED vars
  BY <1>5 DEF vars, outline, KeysSafe, ListedKeysAreLimited, SavedIsLimited, At
<1> QED BY <1>1, <1>2, <1>3, <1>4, <1>5 DEF Next

\* Wherever a creation of a key stops, and whatever other requests do to
\* Outline's keys in between, a key the panel lists that Outline has is limited.
THEOREM KeysHaveLimits == Spec => []ListedKeysAreLimited
<1>1. Init => KeysSafe
  BY DEF Init, KeysSafe, ListedKeysAreLimited, SavedIsLimited, At, Idle
<1>2. KeysSafe => ListedKeysAreLimited
  BY DEF KeysSafe
<1> QED BY <1>1, <1>2, InitTyped, NextTyped, NextKeys, PTL DEF Spec

-----------------------------------------------------------------------------
(* Links *)

Early == {"insert", "send", "await", "write", "error"}
Linking == {"reread", "link", "link-write"}
Creating(r, t) == Working(r, t) /\ req[r].op = "create"
IsActive(t) == tunnel[t] = None \/ tunnel[t].status = "active"

\* Somebody has a link to the tunnel, or is about to be written one.
Linked(t) == (\E u \in Users : t \in links[u]) \/ (\E r \in Requests : t \in req[r].seen)

OneCreation == \A t \in Tunnels : \A r, q \in Requests : Creating(r, t) /\ Creating(q, t) => r = q
CreationsLink == \A r \in Requests : req[r].at \in Linking \cup {"error"} => req[r].op = "create"

\* A creation that can still leave its tunnel pending or failed is of a tunnel
\* nobody has a link to; the one that hands out links has an active tunnel.
UnlinkedUntilActive ==
    \A r \in Requests, t \in Tunnels : (Creating(r, t) /\ req[r].at \in Early) => ~Linked(t)
LinkedIsActive ==
    /\ \A t \in Tunnels : Linked(t) => IsActive(t)
    /\ \A r \in Requests, t \in Tunnels : (Creating(r, t) /\ req[r].at \in Linking) => IsActive(t)

LinksSafe == OneCreation /\ CreationsLink /\ UnlinkedUntilActive /\ LinkedIsActive

\* A request goes on, or ends, without news about links.
Links(g, h) ==
    \/ h.tunnel = None /\ h.seen = {} /\ h.at \notin Linking \cup {"error"}
    \/ /\ h.tunnel = g.tunnel /\ h.op = g.op /\ h.seen = g.seen
       /\ h.at \in Early => g.at \in Early
       /\ h.at \in Linking => g.at \in Linking
       /\ h.at = "error" => h.op = "create"
StaysActive == \A t \in Tunnels : IsActive(t) => IsActive(t)'

LEMMA QuietLinks ==
    ASSUME Typed, LinksSafe, NEW r \in Requests, NEW h, Goto(r, h), Links(req[r], h),
           StaysActive, UNCHANGED links
    PROVE  LinksSafe'
<1>1. \A q \in Requests : req'[q] = IF q = r THEN h ELSE req[q]
  BY GotoOthers
<1>2. \A q \in Requests, t \in Tunnels : Creating(q, t)' =>
        /\ Creating(q, t)
        /\ req'[q].at \in Early => req[q].at \in Early
        /\ req'[q].at \in Linking => req[q].at \in Linking
  BY <1>1, NoneAssumption DEF Creating, Working, Links
<1>3. \A t \in Tunnels : Linked(t)' => Linked(t)
  BY <1>1 DEF Linked, Links
<1>4. OneCreation'
  BY <1>2 DEF LinksSafe, OneCreation
<1>5. CreationsLink'
  BY <1>1 DEF LinksSafe, CreationsLink, Links, Linking
<1>6. UnlinkedUntilActive'
  BY <1>2, <1>3 DEF LinksSafe, UnlinkedUntilActive
<1>7. LinkedIsActive'
  BY <1>2, <1>3 DEF LinksSafe, LinkedIsActive, StaysActive
<1> QED BY <1>4, <1>5, <1>6, <1>7 DEF LinksSafe

LEMMA FinishLinks ==
    ASSUME Typed, LinksSafe, NEW r \in Requests, Finish(r), StaysActive, UNCHANGED links
    PROVE  LinksSafe'
BY QuietLinks DEF Finish, Idle, Links, Linking

LEMMA MoveLinks ==
    ASSUME Typed, LinksSafe, NEW r \in Requests, NEW stage, Move(r, stage),
           stage \in Early => req[r].at \in Early,
           stage \in Linking => req[r].at \in Linking,
           stage = "error" => req[r].op = "create",
           StaysActive, UNCHANGED links
    PROVE  LinksSafe'
<1>1. Links(req[r], [req[r] EXCEPT !.at = stage])
  BY DEF Links, Typed, Registers, Register
<1> QED BY <1>1, QuietLinks DEF Move

LEMMA AfterFailureLinks ==
    ASSUME Typed, LinksSafe, NEW r \in Requests, AfterFailure(r), req[r].at \in Early,
           StaysActive, UNCHANGED links
    PROVE  LinksSafe'
<1>1. CASE req[r].op = "create"
  BY <1>1, MoveLinks DEF AfterFailure, Early, Linking
<1>2. CASE req[r].op # "create"
  BY <1>2, FinishLinks DEF AfterFailure
<1> QED BY <1>1, <1>2

\* Steps that leave the rows alone, or note success, and do not give a link.
LEMMA CalmLinks ==
    ASSUME Typed, LinksSafe, NEW r \in Requests,
           \/ Send(r) \/ Run(r) \/ RunFails(r) \/ Reread(r) \/ LinksDone(r)
           \/ KeyLimit(r) \/ KeySave(r) \/ KeyDelete(r) \/ KeyDrop(r)
           \/ (\E k \in Keys : KeyCreate(r, k) \/ KeyDeleteBegin(r, k))
           \/ GiveUp(r) \/ WriteFails(r) \/ Fails(r)
    PROVE  LinksSafe'
<1>1. UNCHANGED <<tunnel, links>>
  BY DEF Send, Run, RunFails, Reread, LinksDone, KeyLimit, KeySave, KeyDelete, KeyDrop,
         KeyCreate, KeyDeleteBegin, GiveUp, WriteFails, Fails, LocalStep, rows
<1>2. StaysActive
  BY <1>1 DEF StaysActive, IsActive
<1>3. ASSUME NEW k \in Keys, KeyCreate(r, k) \/ KeyDeleteBegin(r, k)
      PROVE  LinksSafe'
  <2>1. ASSUME NEW stage, stage \in {"limit", "key-delete"},
               Goto(r, [Idle EXCEPT !.at = stage, !.key = k])
        PROVE  LinksSafe'
    <3>1. Links(req[r], [Idle EXCEPT !.at = stage, !.key = k])
      BY <2>1 DEF Links, Idle, Linking
    <3> QED BY <1>1, <1>2, <2>1, <3>1, QuietLinks
  <2> QED BY <1>3, <2>1 DEF KeyCreate, KeyDeleteBegin
<1>4. CASE Send(r)
  BY <1>1, <1>2, <1>4, MoveLinks, AfterFailureLinks DEF Send, At, Early, Linking
<1>5. CASE Run(r)
  BY <1>1, <1>2, <1>5, MoveLinks, FinishLinks DEF Run, At, Early, Linking
<1>6. CASE RunFails(r) \/ GiveUp(r) \/ WriteFails(r)
  BY <1>1, <1>2, <1>6, AfterFailureLinks DEF RunFails, GiveUp, WriteFails, At, Early
<1>7. CASE Reread(r) \/ LinksDone(r)
  BY <1>1, <1>2, <1>7, FinishLinks, MoveLinks DEF Reread, LinksDone, At, Early, Linking
<1>8. CASE KeyLimit(r) \/ KeySave(r) \/ KeyDelete(r) \/ KeyDrop(r)
  BY <1>1, <1>2, <1>8, FinishLinks, MoveLinks
     DEF KeyLimit, KeySave, KeyDelete, KeyDrop, Early, Linking
<1>9. CASE Fails(r)
  <2>1. ASSUME NEW u, At(r, "link"), Goto(r, [req[r] EXCEPT !.todo = @ \ {u}])
        PROVE  LinksSafe'
    <3>1. Links(req[r], [req[r] EXCEPT !.todo = @ \ {u}])
      BY <2>1 DEF At, Links, Typed, Registers, Register
    <3> QED BY <1>1, <1>2, <2>1, <3>1, QuietLinks
  <2>2. CASE At(r, "send") /\ AfterFailure(r)
    BY <1>1, <1>2, <2>2, AfterFailureLinks DEF At, Early
  <2>3. CASE At(r, "link-write") /\ Move(r, "link")
    BY <1>1, <1>2, <2>3, MoveLinks DEF At, Early, Linking
  <2> QED BY <1>1, <1>2, <1>9, <2>1, <2>2, <2>3, FinishLinks DEF Fails
<1> QED BY <1>3, <1>4, <1>5, <1>6, <1>7, <1>8, <1>9

\* A request begins: a creation of a tunnel nobody knows, or something else.
LEMMA BeginLinks ==
    ASSUME Typed, LinksSafe, NEW r \in Requests, NEW t \in Tunnels, NEW c,
           \/ \E op \in Ops \ {"create"} : Begin(r, op, t, c)
           \/ \E clients : CreateBegin(r, t, c, clients)
    PROVE  LinksSafe'
<1>1. ASSUME NEW op \in Ops \ {"create"}, Begin(r, op, t, c)
      PROVE  LinksSafe'
  <2> DEFINE h == [Idle EXCEPT !.at = "send", !.op = op, !.tunnel = t, !.config = c]
  <2>1. \A q \in Requests : req'[q] = IF q = r THEN h ELSE req[q]
    BY <1>1, GotoOthers DEF Begin
  <2>2. h.at = "send" /\ h.op # "create" /\ h.seen = {}
    BY DEF Idle
  <2>3. UNCHANGED <<tunnel, links>>
    BY <1>1 DEF Begin, rows
  <2>4. \A q \in Requests, u \in Tunnels : Creating(q, u)' => q # r /\ Creating(q, u)
    BY <2>1, <2>2 DEF Creating, Working
  <2>5. \A u \in Tunnels : Linked(u)' => Linked(u)
    BY <2>1, <2>2, <2>3 DEF Linked
  <2> QED BY <2>1, <2>2, <2>3, <2>4, <2>5
          DEF LinksSafe, OneCreation, CreationsLink, UnlinkedUntilActive, LinkedIsActive,
              IsActive, Linking
<1>2. ASSUME NEW clients, CreateBegin(r, t, c, clients)
      PROVE  LinksSafe'
  <2> DEFINE h == [Idle EXCEPT !.at = "insert", !.op = "create", !.tunnel = t,
                               !.config = c, !.todo = clients]
  <2>1. \A q \in Requests : req'[q] = IF q = r THEN h ELSE req[q]
    BY <1>2, GotoOthers DEF CreateBegin
  <2>2. h.at = "insert" /\ h.op = "create" /\ h.seen = {} /\ h.tunnel = t
    BY DEF Idle
  <2>3. UNCHANGED <<tunnel, links>>
    BY <1>2 DEF CreateBegin, LocalStep, rows
  <2>4. (\A q \in Requests : ~Working(q, t)) /\ ~Linked(t)
    BY <1>2 DEF CreateBegin, Free, UnderWay, Linked
  <2>5. \A q \in Requests, u \in Tunnels : Creating(q, u)' =>
          (q = r /\ u = t) \/ (q # r /\ Creating(q, u) /\ u # t)
    BY <2>1, <2>2, <2>4 DEF Creating, Working
  <2>6. \A u \in Tunnels : Linked(u)' => Linked(u)
    BY <2>1, <2>2, <2>3 DEF Linked
  <2>7. OneCreation'
    BY <2>5 DEF LinksSafe, OneCreation
  <2>8. CreationsLink'
    BY <2>1, <2>2 DEF LinksSafe, CreationsLink, Linking
  <2>9. UnlinkedUntilActive'
    BY <2>1, <2>4, <2>5, <2>6 DEF LinksSafe, UnlinkedUntilActive
  <2>10. LinkedIsActive'
    BY <2>1, <2>2, <2>3, <2>5, <2>6 DEF LinksSafe, LinkedIsActive, IsActive, Linking
  <2> QED BY <2>7, <2>8, <2>9, <2>10 DEF LinksSafe
<1> QED BY <1>1, <1>2

\* The row of a tunnel nobody has a link to may say what it likes.
LEMMA RowLinks ==
    ASSUME Typed, LinksSafe, NEW r \in Requests, NEW h, Goto(r, h), Links(req[r], h),
           NEW t \in Tunnels, Creating(r, t), req[r].at \in Early, h.at \notin Linking,
           \A u \in Tunnels \ {t} : tunnel'[u] = tunnel[u], UNCHANGED links
    PROVE  LinksSafe'
<1>1. \A q \in Requests : req'[q] = IF q = r THEN h ELSE req[q]
  BY GotoOthers
<1>2. \A q \in Requests, u \in Tunnels : Creating(q, u)' =>
        /\ Creating(q, u)
        /\ req'[q].at \in Early => req[q].at \in Early
        /\ req'[q].at \in Linking => req[q].at \in Linking /\ q # r
  BY <1>1, NoneAssumption DEF Creating, Working, Links
<1>3. \A u \in Tunnels : Linked(u)' => Linked(u) /\ u # t
  BY <1>1 DEF Linked, Links, LinksSafe, UnlinkedUntilActive
<1>4. OneCreation'
  BY <1>2 DEF LinksSafe, OneCreation
<1>5. CreationsLink'
  BY <1>1 DEF LinksSafe, CreationsLink, Links, Linking
<1>6. UnlinkedUntilActive'
  BY <1>2, <1>3 DEF LinksSafe, UnlinkedUntilActive
<1>7. LinkedIsActive'
  <2>1. \A u \in Tunnels : Linked(u)' => IsActive(u)'
    BY <1>3 DEF LinksSafe, LinkedIsActive, IsActive
  <2>2. ASSUME NEW q \in Requests, NEW u \in Tunnels, Creating(q, u)', req'[q].at \in Linking
        PROVE  IsActive(u)'
    <3>1. u # t
      BY <1>2, <2>2 DEF LinksSafe, OneCreation
    <3> QED BY <1>2, <2>2, <3>1 DEF LinksSafe, LinkedIsActive, IsActive
  <2> QED BY <2>1, <2>2 DEF LinkedIsActive
<1> QED BY <1>4, <1>5, <1>6, <1>7 DEF LinksSafe

LEMMA CreateInsertLinks ==
    ASSUME Typed, LinksSafe, NEW r \in Requests, CreateInsert(r)
    PROVE  LinksSafe'
<1>1. /\ req[r].at = "insert" /\ req[r].op = "create" /\ req[r].tunnel \in Tunnels
      /\ UNCHANGED links
  BY DEF CreateInsert, At, Typed, Registers, WellFormed, TunnelStages
<1>2. CASE server
  <2>1. /\ Goto(r, [req[r] EXCEPT !.at = "send"])
        /\ \A u \in Tunnels \ {req[r].tunnel} : tunnel'[u] = tunnel[u]
    BY <1>2 DEF CreateInsert, Move, Typed, TypeOK
  <2>2. /\ Links(req[r], [req[r] EXCEPT !.at = "send"])
        /\ [req[r] EXCEPT !.at = "send"].at = "send"
    BY <1>1 DEF Links, Typed, Registers, Register, Early, Linking
  <2> QED BY <1>1, <2>1, <2>2, RowLinks DEF Creating, Working, Early, Linking
<1>3. CASE ~server
  BY <1>1, <1>3, FinishLinks DEF CreateInsert, StaysActive, IsActive
<1> QED BY <1>2, <1>3

LEMMA WriteErrorLinks ==
    ASSUME Typed, LinksSafe, NEW r \in Requests, WriteError(r)
    PROVE  LinksSafe'
<1>1. /\ req[r].at = "error" /\ req[r].op = "create" /\ req[r].tunnel \in Tunnels
      /\ UNCHANGED links
  BY DEF WriteError, At, Typed, Registers, WellFormed, TunnelStages, LinksSafe, CreationsLink
<1>2. /\ Goto(r, Idle)
      /\ \A u \in Tunnels \ {req[r].tunnel} : tunnel'[u] = tunnel[u]
  BY DEF WriteError, Finish, Noted, Typed, TypeOK
<1>3. Links(req[r], Idle) /\ Idle.at = "idle"
  BY DEF Links, Idle, Linking
<1> QED BY <1>1, <1>2, <1>3, RowLinks DEF Creating, Working, Early, Linking

\* A successful note makes the row active, and the creation goes on to links.
LEMMA WriteLinks ==
    ASSUME Typed, LinksSafe, NEW r \in Requests, Write(r), NEW t, t = req[r].tunnel
    PROVE  LinksSafe'
<1>1. req[r].at = "write" /\ t \in Tunnels /\ UNCHANGED links
  BY DEF Write, At, Typed, Registers, WellFormed, TunnelStages
<1>2. IsActive(t)' /\ \A u \in Tunnels \ {t} : tunnel'[u] = tunnel[u]
  BY <1>1 DEF Write, Noted, IsActive, Typed, TypeOK
<1>3. StaysActive
  BY <1>1, <1>2 DEF StaysActive, IsActive
<1>4. CASE req[r].op # "create"
  BY <1>1, <1>3, <1>4, FinishLinks DEF Write
<1>5. CASE req[r].op = "create"
  <2> DEFINE h == [req[r] EXCEPT !.at = "reread"]
  <2>1. \A q \in Requests : req'[q] = IF q = r THEN h ELSE req[q]
    BY <1>5, GotoOthers DEF Write, Move
  <2>2. h.tunnel = t /\ h.op = "create" /\ h.seen = req[r].seen /\ h.at = "reread"
    BY <1>5 DEF Typed, Registers, Register
  <2>3. \A q \in Requests, u \in Tunnels : Creating(q, u)' =>
          /\ Creating(q, u)
          /\ req'[q].at \in Early => req[q].at \in Early
          /\ req'[q].at \in Linking => req[q].at \in Linking \/ u = t
    BY <1>5, <2>1, <2>2 DEF Creating, Working, Early
  <2>4. \A u \in Tunnels : Linked(u)' => Linked(u)
    BY <1>1, <2>1, <2>2 DEF Linked
  <2>5. OneCreation'
    BY <2>3 DEF LinksSafe, OneCreation
  <2>6. CreationsLink'
    BY <2>1, <2>2 DEF LinksSafe, CreationsLink, Linking
  <2>7. UnlinkedUntilActive'
    BY <2>3, <2>4 DEF LinksSafe, UnlinkedUntilActive
  <2>8. LinkedIsActive'
    BY <1>2, <1>3, <2>3, <2>4 DEF LinksSafe, LinkedIsActive, StaysActive
  <2> QED BY <2>5, <2>6, <2>7, <2>8 DEF LinksSafe
<1> QED BY <1>4, <1>5

\* A client's list is read, and written back with the new tunnel.
LEMMA LinkLinks ==
    ASSUME Typed, LinksSafe, NEW r \in Requests, (\E u \in Users : Link(r, u)) \/ LinkWrite(r)
    PROVE  LinksSafe'
<1> DEFINE t == req[r].tunnel
<1>1. PICK h : /\ Goto(r, h) /\ h.tunnel = t /\ h.op = req[r].op /\ h.at \in Linking
               /\ \A v \in h.seen : v \in req[r].seen \/ \E u \in Users : v \in links[u]
               /\ \A u \in Users : \A v \in links'[u] :
                    v = t \/ v \in req[r].seen \/ v \in links[u]
  <2>1. ASSUME NEW u \in Users, Link(r, u)
        PROVE  LET h == [req[r] EXCEPT !.at = "link-write", !.user = u, !.seen = links[u],
                                       !.todo = @ \ {u}]
               IN  /\ Goto(r, h) /\ h.tunnel = t /\ h.op = req[r].op /\ h.at \in Linking
                   /\ h.seen = links[u] /\ UNCHANGED links
    BY <2>1 DEF Link, LocalStep, rows, Typed, Registers, Register, Linking
  <2>2. ASSUME LinkWrite(r)
        PROVE  LET h == [req[r] EXCEPT !.at = "link"]
               IN  /\ Goto(r, h) /\ h.tunnel = t /\ h.op = req[r].op /\ h.at \in Linking
                   /\ h.seen = req[r].seen
    BY <2>2 DEF LinkWrite, Move, Typed, Registers, Register, Linking
  <2>3. ASSUME LinkWrite(r)
        PROVE  \A u \in Users : \A v \in links'[u] : v = t \/ v \in req[r].seen \/ v \in links[u]
    BY <2>3 DEF LinkWrite, Typed, TypeOK
  <2> QED BY <2>1, <2>2, <2>3, ZenonT(30)
<1>2. /\ req[r].at \in Linking /\ t \in Tunnels /\ req[r].op = "create" /\ UNCHANGED tunnel
  BY DEF Link, LinkWrite, LocalStep, rows, At, Linking, Typed, Registers, WellFormed, TunnelStages,
         LinksSafe, CreationsLink
<1>3. \A q \in Requests : req'[q] = IF q = r THEN h ELSE req[q]
  BY <1>1, GotoOthers
<1>4. \A q \in Requests, u \in Tunnels : Creating(q, u)' =>
        /\ Creating(q, u)
        /\ req'[q].at \in Early => req[q].at \in Early /\ q # r
        /\ req'[q].at \in Linking => req[q].at \in Linking
  BY <1>1, <1>2, <1>3 DEF Creating, Working, Early, Linking
<1>5. \A u \in Tunnels : Linked(u)' => Linked(u) \/ u = t
  BY <1>1, <1>3 DEF Linked
<1>6. OneCreation'
  BY <1>4 DEF LinksSafe, OneCreation
<1>7. CreationsLink'
  BY <1>1, <1>2, <1>3 DEF LinksSafe, CreationsLink, Linking
<1>8. UnlinkedUntilActive'
  <2>1. ASSUME NEW q \in Requests, NEW u \in Tunnels, Creating(q, u)', req'[q].at \in Early
        PROVE  ~Linked(u)'
    <3>1. u # t
      BY <1>2, <1>4, <2>1 DEF LinksSafe, OneCreation, Creating, Working
    <3> QED BY <1>4, <1>5, <2>1, <3>1 DEF LinksSafe, UnlinkedUntilActive
  <2> QED BY <2>1 DEF UnlinkedUntilActive
<1>9. IsActive(t)
  BY <1>2 DEF LinksSafe, LinkedIsActive, Creating, Working
<1>10. LinkedIsActive'
  BY <1>2, <1>4, <1>5, <1>9 DEF LinksSafe, LinkedIsActive, IsActive
<1> QED BY <1>6, <1>7, <1>8, <1>10 DEF LinksSafe

LEMMA NextLinks == Typed /\ LinksSafe /\ [Next]_vars => LinksSafe'
<1> SUFFICES ASSUME Typed, LinksSafe, [Next]_vars PROVE LinksSafe'
  OBVIOUS
<1>1. ASSUME NEW r \in Requests, Arrive(r)
      PROVE  LinksSafe'
  <2>1. ASSUME NEW t \in Tunnels, NEW c \in Configs, NEW clients, CreateBegin(r, t, c, clients)
        PROVE  LinksSafe'
    BY <2>1, BeginLinks
  <2>2. ASSUME NEW t \in Tunnels, NEW c \in Configs, Update(r, t, c)
        PROVE  LinksSafe'
    BY <2>2, BeginLinks DEF Update, Ops
  <2>3. ASSUME NEW t \in Tunnels, RestartTunnel(r, t) \/ Delete(r, t) \/ RemoveService(r, t)
        PROVE  LinksSafe'
    BY <2>3, BeginLinks DEF RestartTunnel, Delete, RemoveService, Ops
  <2> QED BY <1>1, <2>1, <2>2, <2>3, CalmLinks DEF Arrive
<1>2. ASSUME NEW r \in Requests, Continue(r) \/ GiveUp(r) \/ WriteFails(r) \/ Fails(r)
      PROVE  LinksSafe'
  BY <1>2, CalmLinks, CreateInsertLinks, WriteErrorLinks, WriteLinks, LinkLinks DEF Continue
<1>3. CASE \/ \E c \in late : RunLate(c)
           \/ UNCHANGED vars
  <2>1. UNCHANGED <<req, tunnel, links>>
    BY <1>3 DEF RunLate, vars, rows
  <2> QED BY <2>1 DEF LinksSafe, OneCreation, CreationsLink, UnlinkedUntilActive, LinkedIsActive,
                      Creating, Working, Linked, IsActive
<1>4. CASE DeleteServer
  <2>1. UNCHANGED <<req, links>> /\ \A t \in Tunnels : tunnel'[t] = None
    BY <1>4 DEF DeleteServer
  <2> QED BY <2>1 DEF LinksSafe, OneCreation, CreationsLink, UnlinkedUntilActive, LinkedIsActive,
                      Creating, Working, Linked, IsActive
<1>5. CASE Restart
  <2>1. UNCHANGED <<tunnel, links>> /\ \A r \in Requests : req'[r] = Idle
    BY <1>5 DEF Restart, rows
  <2>2. \A r \in Requests, t \in Tunnels : ~Creating(r, t)'
    BY <2>1, NoneAssumption DEF Creating, Working, Idle
  <2>3. \A t \in Tunnels : Linked(t)' => Linked(t)
    BY <2>1 DEF Linked, Idle
  <2> QED BY <2>1, <2>2, <2>3 DEF LinksSafe, OneCreation, CreationsLink, UnlinkedUntilActive,
                                  LinkedIsActive, IsActive, Linking, Idle
<1> QED BY <1>1, <1>2, <1>3, <1>4, <1>5 DEF Next

\* Wherever creations fail, and however the requests that hand out links and
\* those that change rows interleave, a client's link to a tunnel the panel
\* lists is to an active one.
THEOREM LinksKeepWorking == Spec => []LinksWork
<1>1. Init => LinksSafe
  <2> SUFFICES ASSUME Init PROVE LinksSafe
    OBVIOUS
  <2>1. /\ \A r \in Requests, t \in Tunnels : ~Creating(r, t)
        /\ \A t \in Tunnels : ~Linked(t)
    BY NoneAssumption DEF Init, Creating, Working, Linked, Idle
  <2>2. \A r \in Requests : req[r].at = "idle"
    BY DEF Init, Idle
  <2>3. OneCreation /\ UnlinkedUntilActive /\ LinkedIsActive
    BY <2>1 DEF OneCreation, UnlinkedUntilActive, LinkedIsActive
  <2>4. CreationsLink
    BY <2>2 DEF CreationsLink, Linking
  <2> QED BY <2>3, <2>4 DEF LinksSafe
<1>2. LinksSafe => LinksWork
  BY DEF LinksSafe, LinkedIsActive, IsActive, Linked, LinksWork
<1> QED BY <1>1, <1>2, InitTyped, NextTyped, NextLinks, PTL DEF Spec

-----------------------------------------------------------------------------
(* Rows and units *)

\* What a row says of a unit, and what a request finds of both, on a tunnel
\* that no two requests worked on at once and none stopped halfway with.
Calm(t) == t \notin overlapped \cup stopped
Paired(record, conf) == record = None \/ conf \in {None, record.config}
Settled(record, conf) ==
    /\ Paired(record, conf)
    /\ record # None => (record.status = "active" => conf # None)
Ready(g, record, conf) ==
    /\ g.at = "insert" => record = None /\ conf = None
    /\ (g.at \in {"send", "await"} /\ g.op = "create") =>
         (conf = None /\ (record = None \/ record.config = g.config))
    /\ g.at # "write" => Settled(record, conf)
    /\ (g.at = "write" /\ g.op \in {"create", "update"}) => conf = g.config
    /\ (g.at = "write" /\ g.op \in {"create", "restart"}) => (conf # None /\ Paired(record, conf))

Agree(t) ==
    /\ \A r \in Requests : Working(r, t) => Ready(req[r], tunnel[t], unit[t])
    /\ (\A r \in Requests : ~Working(r, t)) => Settled(tunnel[t], unit[t])
Agreed == \A t \in Tunnels : Calm(t) => Agree(t)

\* Nobody waits for a late command, so its request has stopped.
LateStopped == \A c \in late : c.tunnel \in stopped

\* A unit that did not come up is one the host answered with an error for, or
\* one whose answer nobody waited for.
DownIsTold == down \subseteq refused \cup stopped

UnitsSafe == Agreed /\ LateStopped /\ DownIsTold

\* A step of a request: it shows what its own tunnel is left like.
LEMMA StepAgrees ==
    ASSUME Typed, Safe, Agreed, NEW r \in Requests, NEW h, Goto(r, h),
           h.tunnel \in {None, req[r].tunnel},
           overlapped \subseteq overlapped', stopped \subseteq stopped',
           \A u \in Tunnels \ {req[r].tunnel} : tunnel'[u] = tunnel[u] /\ unit'[u] = unit[u],
           \A t \in Tunnels :
             (t = req[r].tunnel /\ t \notin overlapped' \cup stopped'
                                /\ Ready(req[r], tunnel[t], unit[t])) =>
               IF h.tunnel = t THEN Ready(h, tunnel'[t], unit'[t])
                               ELSE Settled(tunnel'[t], unit'[t])
    PROVE  Agreed'
<1>1. \A q \in Requests : req'[q] = IF q = r THEN h ELSE req[q]
  BY GotoOthers
<1>2. ASSUME NEW t \in Tunnels, t \notin overlapped' \cup stopped'
      PROVE  /\ \A q \in Requests : req'[q].tunnel = t => Ready(req'[q], tunnel'[t], unit'[t])
             /\ (\A q \in Requests : req'[q].tunnel # t) => Settled(tunnel'[t], unit'[t])
  <2>1. Agree(t)
    BY <1>2 DEF Agreed, Calm
  <2>2. CASE t # req[r].tunnel
    <3>1. tunnel'[t] = tunnel[t] /\ unit'[t] = unit[t]
      BY <2>2
    <3>2. \A q \in Requests : req'[q].tunnel = t => req'[q] = req[q] /\ Working(q, t)
      BY <1>1, <2>2, NoneAssumption DEF Working
    <3>3. \A q \in Requests : Working(q, t) => req'[q].tunnel = t
      BY <1>1, <2>2 DEF Working
    <3> QED BY <2>1, <3>1, <3>2, <3>3 DEF Agree
  <2>3. CASE t = req[r].tunnel
    <3>1. \A q \in Requests : Working(q, t) => q = r
      BY <1>2, <2>3 DEF Safe, OneAtATime, Working
    <3>2. \A q \in Requests : req'[q].tunnel = t => q = r
      BY <1>1, <3>1 DEF Working
    <3>3. Ready(req[r], tunnel[t], unit[t])
      BY <2>1, <2>3 DEF Agree, Working
    <3>4. IF h.tunnel = t THEN Ready(h, tunnel'[t], unit'[t]) ELSE Settled(tunnel'[t], unit'[t])
      BY <1>2, <2>3, <3>3
    <3>5. req'[r] = h
      BY <1>1
    <3>6. CASE h.tunnel = t
      BY <3>2, <3>4, <3>5, <3>6
    <3>7. CASE h.tunnel # t
      BY <3>2, <3>4, <3>5, <3>7
    <3> QED BY <3>6, <3>7
  <2> QED BY <2>2, <2>3
<1> QED BY <1>2 DEF Agreed, Agree, Calm, Working

\* A request that stops halfway may leave its tunnel as it likes.
LEMMA StopAgrees ==
    ASSUME Typed, Safe, Agreed, NEW r \in Requests, NEW h, Goto(r, h),
           h.tunnel \in {None, req[r].tunnel}, Stop(r), overlapped' = overlapped,
           \A u \in Tunnels \ {req[r].tunnel} : tunnel'[u] = tunnel[u] /\ unit'[u] = unit[u]
    PROVE  Agreed'
BY StepAgrees DEF Stop

\* A step that leaves row and unit alone, from where they are settled.
LEMMA QuietAgrees ==
    ASSUME Typed, Safe, Agreed, NEW r \in Requests, NEW h, Goto(r, h),
           h.tunnel \in {None, req[r].tunnel}, req[r].at # "write",
           h.tunnel \in Tunnels =>
             /\ h.at \notin {"insert", "write"}
             /\ h.at \in {"send", "await"} =>
                  req[r].at \in {"send", "await"} /\ h.op = req[r].op /\ h.config = req[r].config,
           UNCHANGED <<tunnel, unit, overlapped>>, stopped \subseteq stopped'
    PROVE  Agreed'
<1>1. ASSUME NEW t \in Tunnels, t = req[r].tunnel, Ready(req[r], tunnel[t], unit[t])
      PROVE  IF h.tunnel = t THEN Ready(h, tunnel[t], unit[t]) ELSE Settled(tunnel[t], unit[t])
  BY <1>1 DEF Ready
<1> QED BY <1>1, StepAgrees

LEMMA FinishAgrees ==
    ASSUME Typed, Safe, Agreed, NEW r \in Requests, Finish(r), req[r].at # "write",
           UNCHANGED <<tunnel, unit, overlapped>>, stopped \subseteq stopped'
    PROVE  Agreed'
BY QuietAgrees, NoneAssumption DEF Finish, Idle

LEMMA MoveAgrees ==
    ASSUME Typed, Safe, Agreed, NEW r \in Requests, NEW stage, Move(r, stage), req[r].at # "write",
           stage \notin {"insert", "write"},
           stage \in {"send", "await"} => req[r].at \in {"send", "await"},
           UNCHANGED <<tunnel, unit, overlapped>>, stopped \subseteq stopped'
    PROVE  Agreed'
<1>1. PICK h : h = [req[r] EXCEPT !.at = stage]
  OBVIOUS
<1>2. h.at = stage /\ h.tunnel = req[r].tunnel /\ h.op = req[r].op /\ h.config = req[r].config
  BY <1>1 DEF Typed, Registers, Register
<1>3. Goto(r, h)
  BY <1>1 DEF Move
<1> QED BY <1>2, <1>3, QuietAgrees

\* Where a failed request goes.
LEMMA AfterFailureGoes ==
    ASSUME Typed, NEW r \in Requests, AfterFailure(r)
    PROVE  \E h : /\ Goto(r, h) /\ h.at # "write"
                  /\ \/ h = Idle
                     \/ h.tunnel = req[r].tunnel /\ h.at = "error" /\ req[r].op = "create"
<1>1. CASE req[r].op = "create"
  <2>1. PICK h : h = [req[r] EXCEPT !.at = "error"]
    OBVIOUS
  <2>2. h.at = "error" /\ h.tunnel = req[r].tunnel
    BY <2>1 DEF Typed, Registers, Register
  <2> QED BY <1>1, <2>1, <2>2 DEF AfterFailure, Move
<1>2. CASE req[r].op # "create"
  BY <1>2 DEF AfterFailure, Finish, Idle
<1> QED BY <1>1, <1>2

LEMMA CalmAgrees ==
    ASSUME Typed, Safe, Agreed, NEW r \in Requests,
           \/ Send(r) \/ Reread(r) \/ (\E u \in Users : Link(r, u)) \/ LinkWrite(r) \/ LinksDone(r)
           \/ KeyLimit(r) \/ KeySave(r) \/ KeyDelete(r) \/ KeyDrop(r)
           \/ (\E k \in Keys : KeyCreate(r, k) \/ KeyDeleteBegin(r, k))
    PROVE  Agreed'
<1>1. UNCHANGED <<tunnel, unit, overlapped, stopped>>
  BY DEF Send, Reread, Link, LinkWrite, LinksDone, KeyLimit, KeySave, KeyDelete, KeyDrop,
         KeyCreate, KeyDeleteBegin, LocalStep, rows, history
<1>2. ASSUME NEW k \in Keys, NEW stage, stage \in {"limit", "key-delete"},
             At(r, "idle"), Goto(r, [Idle EXCEPT !.at = stage, !.key = k])
      PROVE  Agreed'
  <2>1. PICK h : h = [Idle EXCEPT !.at = stage, !.key = k]
    OBVIOUS
  <2>2. h.tunnel = None
    BY <2>1 DEF Idle
  <2> QED BY <1>1, <1>2, <2>1, <2>2, QuietAgrees, NoneAssumption DEF At
<1>3. CASE \E k \in Keys : KeyCreate(r, k) \/ KeyDeleteBegin(r, k)
  BY <1>2, <1>3 DEF KeyCreate, KeyDeleteBegin
<1>4. CASE Send(r)
  <2>1. CASE server
    BY <1>1, <1>4, <2>1, MoveAgrees DEF Send, At
  <2>2. CASE ~server
    <3>1. PICK h : Goto(r, h) /\ (h = Idle \/ (h.tunnel = req[r].tunnel /\ h.at = "error"))
      BY <1>4, <2>2, AfterFailureGoes DEF Send
    <3> QED BY <1>1, <1>4, <3>1, QuietAgrees, NoneAssumption DEF Send, At, Idle
  <2> QED BY <2>1, <2>2
<1>5. CASE \E u \in Users : Link(r, u)
  <2>1. PICK u \in Users : Link(r, u)
    BY <1>5
  <2>2. PICK h : h = [req[r] EXCEPT !.at = "link-write", !.user = u, !.seen = links[u],
                                    !.todo = @ \ {u}]
    OBVIOUS
  <2>3. h.at = "link-write" /\ h.tunnel = req[r].tunnel
    BY <2>2 DEF Typed, Registers, Register
  <2>4. Goto(r, h) /\ req[r].at = "link"
    BY <2>1, <2>2 DEF Link, At
  <2> QED BY <1>1, <2>3, <2>4, QuietAgrees
<1>6. CASE Reread(r) \/ LinkWrite(r) \/ LinksDone(r)
  BY <1>1, <1>6, FinishAgrees, MoveAgrees DEF Reread, LinkWrite, LinksDone, At
<1>7. CASE KeyLimit(r) \/ KeySave(r) \/ KeyDelete(r) \/ KeyDrop(r)
  BY <1>1, <1>7, FinishAgrees, MoveAgrees DEF KeyLimit, KeySave, KeyDelete, KeyDrop, At
<1> QED BY <1>3, <1>4, <1>5, <1>6, <1>7

LEMMA FaultAgrees ==
    ASSUME Typed, Safe, Agreed, NEW r \in Requests, GiveUp(r) \/ WriteFails(r) \/ Fails(r)
    PROVE  Agreed'
<1>1. Stop(r) /\ UNCHANGED <<tunnel, unit, overlapped>>
  BY DEF GiveUp, WriteFails, Fails, rows
<1>2. PICK h : Goto(r, h) /\ h.tunnel \in {None, req[r].tunnel}
  <2>1. CASE AfterFailure(r)
    BY <2>1, AfterFailureGoes DEF Idle
  <2>2. CASE Finish(r)
    BY <2>2 DEF Finish, Idle
  <2>3. ASSUME NEW u, Goto(r, [req[r] EXCEPT !.todo = @ \ {u}])
        PROVE  \E h : Goto(r, h) /\ h.tunnel \in {None, req[r].tunnel}
    <3>1. [req[r] EXCEPT !.todo = @ \ {u}].tunnel = req[r].tunnel
      BY DEF Typed, Registers, Register
    <3> QED BY <2>3, <3>1
  <2>4. CASE Move(r, "link")
    <3>1. [req[r] EXCEPT !.at = "link"].tunnel = req[r].tunnel
      BY DEF Typed, Registers, Register
    <3> QED BY <2>4, <3>1 DEF Move
  <2> QED BY <2>1, <2>2, <2>3, <2>4 DEF GiveUp, WriteFails, Fails
<1> QED BY <1>1, <1>2, StopAgrees

LEMMA CreateInsertAgrees ==
    ASSUME Typed, Safe, Agreed, NEW r \in Requests, CreateInsert(r)
    PROVE  Agreed'
<1>1. /\ req[r].at = "insert" /\ req[r].op = "create" /\ UNCHANGED <<unit, overlapped, stopped>>
      /\ req[r].tunnel \in Tunnels
  BY DEF CreateInsert, At, history, Typed, Registers, WellFormed, TunnelStages
<1>2. CASE server
  <2>1. PICK h : h = [req[r] EXCEPT !.at = "send"]
    OBVIOUS
  <2>2. h.at = "send" /\ h.tunnel = req[r].tunnel /\ h.config = req[r].config
    BY <2>1 DEF Typed, Registers, Register
  <2>3. /\ Goto(r, h)
        /\ tunnel' = [tunnel EXCEPT ![req[r].tunnel] =
                        [config |-> req[r].config, status |-> "pending"]]
    BY <1>2, <2>1 DEF CreateInsert, Move
  <2>4. /\ tunnel'[req[r].tunnel] = [config |-> req[r].config, status |-> "pending"]
        /\ \A u \in Tunnels \ {req[r].tunnel} : tunnel'[u] = tunnel[u]
    BY <1>1, <2>3 DEF Typed, TypeOK
  <2>5. ASSUME NEW t \in Tunnels, t = req[r].tunnel, Ready(req[r], tunnel[t], unit[t])
        PROVE  Ready(h, tunnel'[t], unit[t])
    BY <1>1, <2>2, <2>4, <2>5 DEF Ready, Settled, Paired
  <2> QED BY <1>1, <2>2, <2>3, <2>4, <2>5, StepAgrees
<1>3. CASE ~server
  BY <1>1, <1>3, FinishAgrees DEF CreateInsert
<1> QED BY <1>2, <1>3

LEMMA CommandUnits ==
    ASSUME Typed, NEW c \in Command, RunsWell(c) \/ RunsBadly(c)
    PROVE  \A u \in Tunnels \ {c.tunnel} : unit'[u] = unit[u]
BY DEF RunsWell, RunsBadly, Typed, TypeOK, Command

LEMMA RunAgrees ==
    ASSUME Typed, Safe, Agreed, NEW r \in Requests, Run(r)
    PROVE  Agreed'
<1>1. /\ CommandOf(r) \in Command /\ CommandOf(r).tunnel = req[r].tunnel
      /\ CommandOf(r).op = req[r].op /\ CommandOf(r).config = req[r].config
      /\ req[r].tunnel \in Tunnels /\ req[r].at = "await" /\ RunsWell(CommandOf(r))
  BY CommandFacts DEF Run, At, CommandOf
<1>2. UNCHANGED <<tunnel, overlapped>> /\ \A u \in Tunnels \ {req[r].tunnel} : unit'[u] = unit[u]
  BY <1>1, CommandUnits DEF Run, rows
<1>3. CASE req[r].op = "remove"
  <2>1. Goto(r, Idle) /\ Stop(r)
    BY <1>3 DEF Run, Finish
  <2> QED BY <1>2, <2>1, StopAgrees DEF Idle
<1>4. CASE req[r].op # "remove"
  <2>1. PICK h : h = [req[r] EXCEPT !.at = "write"]
    OBVIOUS
  <2>2. /\ h.at = "write" /\ h.tunnel = req[r].tunnel /\ h.op = req[r].op
        /\ h.config = req[r].config
    BY <2>1 DEF Typed, Registers, Register
  <2>3. Goto(r, h) /\ UNCHANGED stopped
    BY <1>4, <2>1 DEF Run, Move
  <2>4. req[r].op \in {"create", "update"} => req[r].config \in Configs
    BY <1>1 DEF Typed, Registers, WellFormed
  <2>5. ASSUME NEW t \in Tunnels, t = req[r].tunnel, Ready(req[r], tunnel[t], unit[t])
        PROVE  Ready(h, tunnel[t], unit'[t])
    <3>1. CASE req[r].op \in {"create", "update"}
      <4>1. unit'[t] = req[r].config /\ unit'[t] # None
        BY <1>1, <2>4, <2>5, <3>1, NoneAssumption DEF RunsWell, Applies, Removes, Typed, TypeOK
      <4> QED BY <1>1, <2>2, <2>5, <3>1, <4>1 DEF Ready, Paired
    <3>2. CASE req[r].op = "restart"
      <4>1. unit'[t] = unit[t] /\ unit[t] # None
        BY <1>1, <2>5, <3>2 DEF RunsWell, Applies, Removes
      <4> QED BY <1>1, <2>2, <2>5, <3>2, <4>1 DEF Ready, Settled
    <3>3. CASE req[r].op \notin {"create", "update", "restart"}
      BY <2>2, <3>3 DEF Ready
    <3> QED BY <3>1, <3>2, <3>3
  <2> QED BY <1>1, <1>2, <2>2, <2>3, <2>5, StepAgrees
<1> QED BY <1>3, <1>4

LEMMA RunFailsAgrees ==
    ASSUME Typed, Safe, Agreed, NEW r \in Requests, RunFails(r)
    PROVE  Agreed'
<1>1. /\ CommandOf(r) \in Command /\ CommandOf(r).tunnel = req[r].tunnel
      /\ CommandOf(r).op = req[r].op /\ CommandOf(r).config = req[r].config
      /\ req[r].tunnel \in Tunnels /\ req[r].at = "await" /\ RunsBadly(CommandOf(r))
  BY CommandFacts DEF RunFails, At, CommandOf
<1>2. UNCHANGED <<tunnel, overlapped>> /\ \A u \in Tunnels \ {req[r].tunnel} : unit'[u] = unit[u]
  BY <1>1, CommandUnits DEF RunFails, rows
<1>3. PICK h : /\ Goto(r, h) /\ h.tunnel \in {None, req[r].tunnel} /\ h.at \in {"idle", "error"}
               /\ h.at = "idle" => h.tunnel = None
  <2>1. PICK h : /\ Goto(r, h) /\ h.at # "write"
                 /\ \/ h = Idle
                    \/ h.tunnel = req[r].tunnel /\ h.at = "error" /\ req[r].op = "create"
    BY AfterFailureGoes DEF RunFails
  <2> QED BY <2>1 DEF Idle
<1>4. CASE req[r].op = "update" /\ unit' # unit
  <2>1. Stop(r)
    BY <1>4 DEF RunFails
  <2> QED BY <1>2, <1>3, <2>1, StopAgrees
<1>5. CASE ~(req[r].op = "update" /\ unit' # unit)
  <2>1. UNCHANGED stopped
    BY <1>5 DEF RunFails
  <2>2. ASSUME NEW t \in Tunnels, t = req[r].tunnel, Ready(req[r], tunnel[t], unit[t])
        PROVE  Settled(tunnel[t], unit'[t])
    <3>1. CASE unit'[t] = unit[t]
      BY <1>1, <2>2, <3>1 DEF Ready
    <3>2. CASE unit'[t] # unit[t]
      <4>1. req[r].op = "create"
        BY <1>1, <1>5, <3>2 DEF RunsBadly, Applies
      <4>2. unit'[t] = req[r].config /\ req[r].config \in Configs
        BY <1>1, <2>2, <3>2, <4>1 DEF RunsBadly, Typed, TypeOK, Registers, WellFormed
      <4> QED BY <1>1, <2>2, <4>1, <4>2, NoneAssumption DEF Ready, Settled, Paired
    <3> QED BY <3>1, <3>2
  <2>3. ASSUME NEW t \in Tunnels, t = req[r].tunnel, Ready(req[r], tunnel[t], unit[t])
        PROVE  IF h.tunnel = t THEN Ready(h, tunnel[t], unit'[t]) ELSE Settled(tunnel[t], unit'[t])
    BY <1>3, <2>2, <2>3, NoneAssumption DEF Ready
  <2> QED BY <1>2, <1>3, <2>1, <2>3, StepAgrees
<1> QED BY <1>4, <1>5

\* What is noted is what the host runs.
LEMMA WriteAgrees ==
    ASSUME Typed, Safe, Agreed, NEW r \in Requests, Write(r)
    PROVE  Agreed'
<1>1. /\ req[r].at = "write" /\ req[r].tunnel \in Tunnels /\ UNCHANGED <<unit, overlapped, stopped>>
  BY DEF Write, At, history, Typed, Registers, WellFormed, TunnelStages
<1>2. PICK h : Goto(r, h) /\ h.tunnel \in {None, req[r].tunnel} /\ h.at \in {"idle", "reread"}
  <2>1. CASE Finish(r)
    BY <2>1 DEF Finish, Idle
  <2>2. CASE Move(r, "reread")
    <3>1. [req[r] EXCEPT !.at = "reread"].tunnel = req[r].tunnel /\ [req[r] EXCEPT !.at = "reread"].at = "reread"
      BY DEF Typed, Registers, Register
    <3> QED BY <2>2, <3>1 DEF Move
  <2> QED BY <2>1, <2>2 DEF Write
<1>3. ASSUME NEW t \in Tunnels, t = req[r].tunnel, Ready(req[r], tunnel[t], unit[t])
      PROVE  Settled(tunnel'[t], unit[t])
  <2>1. CASE tunnel[t] = None
    <3>1. tunnel'[t] = None
      BY <1>3, <2>1 DEF Write, Noted, Typed, TypeOK
    <3> QED BY <3>1 DEF Settled, Paired
  <2>2. CASE tunnel[t] # None /\ req[r].op \in {"create", "restart"}
    <3>1. tunnel'[t] = [config |-> tunnel[t].config, status |-> "active"]
      BY <1>3, <2>2 DEF Write, Noted, Config, Typed, TypeOK
    <3> QED BY <1>1, <1>3, <2>2, <3>1 DEF Ready, Settled, Paired
  <2>3. CASE tunnel[t] # None /\ req[r].op = "update"
    <3>1. tunnel'[t] = [config |-> req[r].config, status |-> "active"]
      BY <1>3, <2>3 DEF Write, Noted, Typed, TypeOK
    <3>2. req[r].config \in Configs
      BY <1>1, <2>3 DEF Typed, Registers, WellFormed
    <3> QED BY <1>1, <1>3, <2>3, <3>1, <3>2, NoneAssumption DEF Ready, Settled, Paired
  <2>4. CASE req[r].op = "delete"
    <3>1. tunnel'[t] = None
      BY <1>3, <2>4 DEF Write, Typed, TypeOK
    <3> QED BY <3>1 DEF Settled, Paired
  <2> QED BY <2>1, <2>2, <2>3, <2>4 DEF Write
<1>4. \A u \in Tunnels \ {req[r].tunnel} : tunnel'[u] = tunnel[u]
  BY <1>1 DEF Write, Noted, Typed, TypeOK
<1>5. ASSUME NEW t \in Tunnels, t = req[r].tunnel, Ready(req[r], tunnel[t], unit[t])
      PROVE  IF h.tunnel = t THEN Ready(h, tunnel'[t], unit[t]) ELSE Settled(tunnel'[t], unit[t])
  BY <1>2, <1>3, <1>5 DEF Ready
<1> QED BY <1>1, <1>2, <1>4, <1>5, StepAgrees

LEMMA WriteErrorAgrees ==
    ASSUME Typed, Safe, Agreed, NEW r \in Requests, WriteError(r)
    PROVE  Agreed'
<1>1. /\ req[r].at = "error" /\ req[r].tunnel \in Tunnels /\ UNCHANGED <<unit, overlapped, stopped>>
      /\ Goto(r, Idle)
  BY DEF WriteError, Finish, At, history, Typed, Registers, WellFormed, TunnelStages
<1>2. \A u \in Tunnels \ {req[r].tunnel} : tunnel'[u] = tunnel[u]
  BY <1>1 DEF WriteError, Noted, Typed, TypeOK
<1>3. ASSUME NEW t \in Tunnels, t = req[r].tunnel, Ready(req[r], tunnel[t], unit[t])
      PROVE  Settled(tunnel'[t], unit[t])
  <2>1. CASE tunnel[t] = None
    <3>1. tunnel'[t] = None
      BY <1>3, <2>1 DEF WriteError, Noted
    <3> QED BY <3>1 DEF Settled, Paired
  <2>2. CASE tunnel[t] # None
    <3>1. tunnel'[t] = [config |-> tunnel[t].config, status |-> "error"]
      BY <1>3, <2>2 DEF WriteError, Noted, Config, Typed, TypeOK
    <3> QED BY <1>1, <1>3, <2>2, <3>1 DEF Ready, Settled, Paired
  <2> QED BY <2>1, <2>2
<1>4. Idle.tunnel = None
  BY DEF Idle
<1> QED BY <1>1, <1>2, <1>3, <1>4, StepAgrees, NoneAssumption

\* A request begins: on a free tunnel, or on one nobody works on, or it marks
\* the overlap.
LEMMA BeginAgrees ==
    ASSUME Typed, Safe, Agreed, NEW r \in Requests, NEW t \in Tunnels, NEW c,
           \/ \E op \in Ops \ {"create"} : Begin(r, op, t, c)
           \/ \E clients : CreateBegin(r, t, c, clients)
    PROVE  Agreed'
<1>1. PICK h : /\ Goto(r, h) /\ h.tunnel = t /\ h.at \in {"insert", "send"}
               /\ h.at = "insert" => Free(t)
               /\ h.at = "send" => h.op # "create"
  <2>1. ASSUME NEW op \in Ops \ {"create"}, Begin(r, op, t, c)
        PROVE  \E h : /\ Goto(r, h) /\ h.tunnel = t /\ h.at = "send" /\ h.op # "create"
    <3>1. PICK h : h = [Idle EXCEPT !.at = "send", !.op = op, !.tunnel = t, !.config = c]
      OBVIOUS
    <3>2. h.tunnel = t /\ h.at = "send" /\ h.op # "create"
      BY <3>1 DEF Idle
    <3> QED BY <2>1, <3>1, <3>2 DEF Begin
  <2>2. ASSUME NEW clients, CreateBegin(r, t, c, clients)
        PROVE  \E h : /\ Goto(r, h) /\ h.tunnel = t /\ h.at = "insert" /\ Free(t)
    <3>1. PICK h : h = [Idle EXCEPT !.at = "insert", !.op = "create", !.tunnel = t,
                                    !.config = c, !.todo = clients]
      OBVIOUS
    <3> QED BY <2>2, <3>1 DEF CreateBegin, Idle
  <2> QED BY <2>1, <2>2
<1>2. /\ UNCHANGED <<tunnel, unit, stopped>> /\ req[r].at = "idle"
      /\ overlapped \subseteq overlapped'
      /\ t \notin overlapped' => \A q \in Requests : ~Working(q, t)
  BY DEF Begin, CreateBegin, Free, UnderWay, LocalStep, rows, history, At
<1>3. \A q \in Requests : req'[q] = IF q = r THEN h ELSE req[q]
  BY <1>1, GotoOthers
<1>4. ASSUME NEW u \in Tunnels, u \notin overlapped' \cup stopped'
      PROVE  /\ \A q \in Requests : req'[q].tunnel = u => Ready(req'[q], tunnel'[u], unit'[u])
             /\ (\A q \in Requests : req'[q].tunnel # u) => Settled(tunnel'[u], unit'[u])
  <2>1. Agree(u) /\ tunnel'[u] = tunnel[u] /\ unit'[u] = unit[u]
    BY <1>2, <1>4 DEF Agreed, Calm
  <2>2. CASE u = t
    <3>1. Settled(tunnel[u], unit[u])
      BY <1>2, <1>4, <2>1, <2>2 DEF Agree
    <3>2. Ready(h, tunnel[u], unit[u])
      BY <1>1, <2>2, <3>1 DEF Ready, Free
    <3>3. \A q \in Requests : req'[q].tunnel = u => req'[q] = h
      BY <1>2, <1>3, <1>4, <2>2 DEF Working
    <3> QED BY <2>1, <3>1, <3>2, <3>3
  <2>3. CASE u # t
    <3>1. \A q \in Requests : req'[q].tunnel = u => req'[q] = req[q]
      BY <1>1, <1>3, <2>3
    <3>2. \A q \in Requests : (Working(q, u) /\ q # r) => req'[q].tunnel = u
      BY <1>3 DEF Working
    <3>3. Working(r, u) => Settled(tunnel[u], unit[u])
      BY <1>2, <2>1 DEF Agree, Ready
    <3> QED BY <2>1, <3>1, <3>2, <3>3 DEF Agree, Working
  <2> QED BY <2>2, <2>3
<1> QED BY <1>4 DEF Agreed, Agree, Calm, Working

LEMMA HostAndPanelAgree ==
    ASSUME Typed, Safe, Agreed, LateStopped,
           (\E c \in late : RunLate(c)) \/ DeleteServer \/ Restart
    PROVE  Agreed'
<1>1. ASSUME NEW c \in late, RunLate(c)
      PROVE  Agreed'
  <2>1. /\ UNCHANGED <<tunnel, req, overlapped, stopped>> /\ c.tunnel \in stopped
        /\ \A u \in Tunnels \ {c.tunnel} : unit'[u] = unit[u]
    BY <1>1, CommandUnits DEF RunLate, LateStopped, rows, history, Typed, TypeOK
  <2> QED BY <2>1 DEF Agreed, Agree, Calm, Working
<1>2. CASE DeleteServer
  <2>1. /\ UNCHANGED <<unit, req, overlapped, stopped>> /\ \A u \in Tunnels : tunnel'[u] = None
    BY <1>2 DEF DeleteServer, history
  <2>2. \A u \in Tunnels : Settled(None, unit[u])
    BY DEF Settled, Paired
  <2>3. \A r \in Requests, u \in Tunnels :
          Ready(req[r], tunnel[u], unit[u]) => Ready(req[r], None, unit[u])
    BY DEF Ready, Settled, Paired
  <2> QED BY <2>1, <2>2, <2>3 DEF Agreed, Agree, Calm, Working
<1>3. CASE Restart
  <2>1. /\ UNCHANGED <<tunnel, unit, overlapped>>
        /\ stopped' = stopped \cup ({req[r].tunnel : r \in Requests} \cap Tunnels)
        /\ \A r \in Requests : req'[r].tunnel = None
    BY <1>3 DEF Restart, rows, Idle
  <2>2. ASSUME NEW t \in Tunnels, t \notin overlapped' \cup stopped'
        PROVE  Settled(tunnel[t], unit[t])
    <3>1. \A r \in Requests : ~Working(r, t)
      BY <2>1, <2>2 DEF Working
    <3> QED BY <2>1, <2>2, <3>1 DEF Agreed, Agree, Calm
  <2> QED BY <2>1, <2>2, NoneAssumption DEF Agreed, Agree, Calm, Working
<1> QED BY <1>1, <1>2, <1>3

LEMMA NextAgrees == IInv /\ UnitsSafe /\ [Next]_vars => Agreed'
<1> SUFFICES ASSUME Typed, Safe, Agreed, LateStopped, [Next]_vars PROVE Agreed'
  BY DEF IInv, UnitsSafe
<1>1. ASSUME NEW r \in Requests, Arrive(r)
      PROVE  Agreed'
  <2>1. ASSUME NEW t \in Tunnels, NEW c \in Configs, NEW clients, CreateBegin(r, t, c, clients)
        PROVE  Agreed'
    BY <2>1, BeginAgrees
  <2>2. ASSUME NEW t \in Tunnels, NEW c \in Configs, Update(r, t, c)
        PROVE  Agreed'
    BY <2>2, BeginAgrees DEF Update, Ops
  <2>3. ASSUME NEW t \in Tunnels, RestartTunnel(r, t) \/ Delete(r, t) \/ RemoveService(r, t)
        PROVE  Agreed'
    BY <2>3, BeginAgrees DEF RestartTunnel, Delete, RemoveService, Ops
  <2> QED BY <1>1, <2>1, <2>2, <2>3, CalmAgrees DEF Arrive
<1>2. ASSUME NEW r \in Requests, Continue(r) \/ GiveUp(r) \/ WriteFails(r) \/ Fails(r)
      PROVE  Agreed'
  BY <1>2, CalmAgrees, FaultAgrees, CreateInsertAgrees, RunAgrees, RunFailsAgrees, WriteAgrees,
     WriteErrorAgrees DEF Continue
<1>3. CASE UNCHANGED vars
  BY <1>3 DEF vars, rows, history, Agreed, Agree, Calm, Working
<1> QED BY <1>1, <1>2, <1>3, HostAndPanelAgree DEF Next

LEMMA NextLateStopped == IInv /\ LateStopped /\ [Next]_vars => LateStopped'
<1> SUFFICES ASSUME Typed, Safe, LateStopped, [Next]_vars PROVE LateStopped'
  BY DEF IInv
<1> DEFINE Grows == stopped \subseteq stopped' /\ late' \subseteq late
<1>6. ASSUME NEW r \in Requests, Arrive(r)
      PROVE  Grows
  BY <1>6 DEF Arrive, LocalStep, history, CreateBegin, Update, RestartTunnel, Delete, RemoveService,
         Begin, KeyCreate, KeyDeleteBegin
<1>7. ASSUME NEW r \in Requests, Continue(r)
      PROVE  Grows
  <2>1. CASE CreateInsert(r) \/ Send(r)
    BY <2>1 DEF CreateInsert, Send, history, LocalStep
  <2>2. CASE Run(r) \/ RunFails(r)
    BY <2>2 DEF Run, RunFails, Stop
  <2>3. CASE Write(r) \/ WriteError(r) \/ Reread(r)
    BY <2>3 DEF Write, WriteError, Reread, history, LocalStep
  <2>4. CASE (\E u \in Users : Link(r, u)) \/ LinkWrite(r) \/ LinksDone(r)
    BY <2>4 DEF Link, LinkWrite, LinksDone, history, LocalStep
  <2>5. CASE KeyLimit(r) \/ KeySave(r) \/ KeyDelete(r) \/ KeyDrop(r)
    BY <2>5 DEF KeyLimit, KeySave, KeyDelete, KeyDrop, history, LocalStep
  <2>. QED BY <1>7, <2>1, <2>2, <2>3, <2>4, <2>5 DEF Continue
<1>8. ASSUME NEW r \in Requests, WriteFails(r) \/ Fails(r)
      PROVE  Grows
  BY <1>8 DEF WriteFails, Fails, Stop, history
<1>9. ASSUME (\E c \in late : RunLate(c)) \/ DeleteServer \/ UNCHANGED vars
      PROVE  Grows
  <2>1. ASSUME NEW c \in late, RunLate(c) PROVE Grows
    BY <2>1 DEF RunLate, history
  <2>2. CASE DeleteServer
    BY <2>2 DEF DeleteServer, history
  <2>3. CASE UNCHANGED vars
    BY <2>3 DEF vars, history
  <2>. QED BY <1>9, <2>1, <2>2, <2>3
<1>1. stopped \subseteq stopped'
  <2>1. ASSUME NEW r \in Requests, GiveUp(r) PROVE stopped \subseteq stopped'
    BY <2>1 DEF GiveUp, Stop
  <2>2. Restart => stopped \subseteq stopped'
    BY DEF Restart
  <2>. QED BY <1>6, <1>7, <1>8, <1>9, <2>1, <2>2 DEF Next
<1>2. ASSUME NEW r \in Requests, GiveUp(r)
      PROVE  LateStopped'
  BY <1>1, <1>2, CommandFacts DEF GiveUp, Stop, LateStopped
<1>3. CASE Restart
  <2>1. \A r \in Requests : At(r, "await") => CommandOf(r).tunnel \in stopped'
    BY <1>3, CommandFacts DEF Restart
  <2> QED BY <1>1, <1>3, <2>1 DEF Restart, LateStopped
<1>4. CASE late' \subseteq late
  BY <1>1, <1>4 DEF LateStopped
<1>5. (\E r \in Requests : GiveUp(r)) \/ Restart \/ late' \subseteq late
  BY <1>6, <1>7, <1>8, <1>9 DEF Next
<1> QED BY <1>2, <1>3, <1>4, <1>5

LEMMA NextDownIsTold == IInv /\ LateStopped /\ DownIsTold /\ [Next]_vars => DownIsTold'
<1> SUFFICES ASSUME Typed, Safe, LateStopped, DownIsTold, [Next]_vars PROVE DownIsTold'
  BY DEF IInv
<1> DEFINE Same == UNCHANGED <<down, refused>> /\ stopped \subseteq stopped'
<1>1. ASSUME NEW r \in Requests, Arrive(r)
      PROVE  Same
  BY <1>1 DEF Arrive, LocalStep, history, CreateBegin, Update, RestartTunnel, Delete, RemoveService,
         Begin, KeyCreate, KeyDeleteBegin
<1>2. ASSUME NEW r \in Requests, Continue(r), ~Run(r), ~RunFails(r)
      PROVE  Same
  <2>1. CASE CreateInsert(r) \/ Send(r)
    BY <2>1 DEF CreateInsert, Send, history, LocalStep
  <2>2. CASE Write(r) \/ WriteError(r) \/ Reread(r)
    BY <2>2 DEF Write, WriteError, Reread, history, LocalStep
  <2>3. CASE (\E u \in Users : Link(r, u)) \/ LinkWrite(r) \/ LinksDone(r)
    BY <2>3 DEF Link, LinkWrite, LinksDone, history, LocalStep
  <2>4. CASE KeyLimit(r) \/ KeySave(r) \/ KeyDelete(r) \/ KeyDrop(r)
    BY <2>4 DEF KeyLimit, KeySave, KeyDelete, KeyDrop, history, LocalStep
  <2>. QED BY <1>2, <2>1, <2>2, <2>3, <2>4 DEF Continue
<1>3. ASSUME NEW r \in Requests, GiveUp(r) \/ WriteFails(r) \/ Fails(r)
      PROVE  Same
  BY <1>3 DEF GiveUp, WriteFails, Fails, Stop
<1>4. ASSUME DeleteServer \/ Restart \/ UNCHANGED vars
      PROVE  Same
  BY <1>4 DEF DeleteServer, Restart, vars, history
<1>5. ASSUME NEW r \in Requests, Run(r)
      PROVE  DownIsTold'
  <2>1. /\ down' = down \ {req[r].tunnel} /\ refused' = refused \ {req[r].tunnel}
        /\ stopped \subseteq stopped'
    BY <1>5, CommandFacts DEF Run, RunsWell, Stop
  <2>. QED BY <2>1 DEF DownIsTold
<1>6. ASSUME NEW r \in Requests, RunFails(r)
      PROVE  DownIsTold'
  <2>1. /\ down' \subseteq down \cup {req[r].tunnel} /\ refused' = refused \cup {req[r].tunnel}
        /\ stopped \subseteq stopped'
    BY <1>6, CommandFacts DEF RunFails, RunsBadly, Stop
  <2>. QED BY <2>1 DEF DownIsTold
<1>7. ASSUME NEW c \in late, RunLate(c)
      PROVE  DownIsTold'
  <2>1. down' \subseteq down \cup {c.tunnel} /\ UNCHANGED <<refused, stopped>> /\ c.tunnel \in stopped
    BY <1>7 DEF RunLate, RunsWell, RunsBadly, history, LateStopped
  <2>. QED BY <2>1 DEF DownIsTold
<1>8. Same => DownIsTold'
  BY DEF DownIsTold
<1>. QED BY <1>1, <1>2, <1>3, <1>4, <1>5, <1>6, <1>7, <1>8 DEF Next

\* Whatever the host refuses and whatever fails elsewhere, a row that says
\* active shows the configuration its unit has, and a unit that did not come up
\* is one an admin was answered with an error for, on every tunnel that no two
\* requests worked on at once and none stopped halfway with.
THEOREM ActiveRowsRun == Spec => []ActiveRuns
<1>1. Init => IInv /\ UnitsSafe
  <2> SUFFICES ASSUME Init PROVE IInv /\ UnitsSafe
    OBVIOUS
  <2>1. \A r \in Requests, t \in Tunnels : ~Working(r, t)
    BY NoneAssumption DEF Init, Working, Idle
  <2>2. \A t \in Tunnels : Settled(tunnel[t], unit[t])
    BY DEF Init, Settled, Paired
  <2> QED BY <2>1, <2>2, InitTyped, InitSafe
     DEF Init, IInv, UnitsSafe, Agreed, Agree, LateStopped, DownIsTold
<1>2. IInv /\ UnitsSafe /\ [Next]_vars => (IInv /\ UnitsSafe)'
  BY NextTyped, NextSafe, NextAgrees, NextLateStopped, NextDownIsTold DEF IInv, UnitsSafe
<1>3. IInv /\ UnitsSafe => ActiveRuns
  <2> SUFFICES ASSUME IInv, UnitsSafe, NEW t \in Tunnels, tunnel[t] # None,
                      tunnel[t].status = "active", Calm(t),
                      \A r \in Requests : ~(Working(r, t) /\ At(r, "write"))
               PROVE  unit[t] = tunnel[t].config /\ (t \in down => t \in refused)
    BY DEF ActiveRuns, Calm
  <2>1. Agree(t)
    BY DEF UnitsSafe, Agreed
  <2>2. Settled(tunnel[t], unit[t])
    BY <2>1 DEF Agree, Ready, At
  <2> QED BY <2>2 DEF Settled, Paired, UnitsSafe, DownIsTold, Calm
<1> QED BY <1>1, <1>2, <1>3, PTL DEF Spec

-----------------------------------------------------------------------------
(* Maintenance: where a script is, and what a statement of it does *)

T == Scripts[script]

\* A script that moves is at a statement of a loop it has.
Placing ==
    /\ script \in DOMAIN Scripts
    /\ at \in Nat \ {0}
    /\ left = {} => at = 1
    /\ mode \in Fleet!Running => phase \in 0..Len(Fleet!Plan) /\ (phase = 0 => left = {})
    /\ mode \in Fleet!Running /\ left # {} => at <= Len(Fleet!Plan[phase]) - 1

\* Every list of a script is a list of loops, and a loop has a statement.
LEMMA TableHas ==
    ASSUME script \in DOMAIN Scripts
    PROVE  /\ T.before \in Seq(Seq(STRING)) /\ T.try \in Seq(Seq(STRING))
           /\ T.after \in Seq(Seq(STRING)) /\ T.undo \in Seq(Seq(STRING))
           /\ T.back \in Seq(Seq(STRING))
           /\ \A k \in 1..Len(T.before) : Len(T.before[k]) >= 2
           /\ \A k \in 1..Len(T.try) : Len(T.try[k]) >= 2
           /\ \A k \in 1..Len(T.after) : Len(T.after[k]) >= 2
           /\ \A k \in 1..Len(T.undo) : Len(T.undo[k]) >= 2
           /\ \A k \in 1..Len(T.back) : Len(T.back[k]) >= 2
<1> DEFINE t == T
<1>1. \A loops \in {t.before, t.try, t.after, t.undo, t.back} :
            /\ loops \in Seq(Seq(STRING))
            /\ \A k \in DOMAIN loops : Len(loops[k]) >= 2
  BY LoopsAssumption DEF T, IsScript
<1> HIDE DEF t
<1>2. \A loops : loops \in Seq(Seq(STRING)) => DOMAIN loops = 1..Len(loops)
  OBVIOUS
<1>3. \A loops \in {t.before, t.try, t.after, t.undo, t.back} :
            /\ loops \in Seq(Seq(STRING))
            /\ \A k \in 1..Len(loops) : Len(loops[k]) >= 2
  BY <1>1, <1>2
<1>. QED BY <1>3 DEF t

\* Sequences put one after the other.
LEMMA Joined ==
    ASSUME NEW X, NEW a \in Seq(X), NEW b \in Seq(X), NEW c \in Seq(X)
    PROVE  /\ a \o b \o c \in Seq(X)
           /\ Len(a \o b \o c) = Len(a) + Len(b) + Len(c)
           /\ \A k \in 1..Len(a) : (a \o b \o c)[k] = a[k]
           /\ \A k \in 1..Len(b) : (a \o b \o c)[Len(a) + k] = b[k]
           /\ \A k \in 1..Len(c) : (a \o b \o c)[Len(a) + Len(b) + k] = c[k]
           /\ \A k \in 1..Len(a) + Len(b) + Len(c) :
                \/ k \in 1..Len(a)
                \/ k - Len(a) \in 1..Len(b)
                \/ k - Len(a) - Len(b) \in 1..Len(c)
OBVIOUS

\* The loops of a run are those before, those tried and those after.
LEMMA RunPlan ==
    ASSUME script \in DOMAIN Scripts, mode = "run"
    PROVE  /\ Fleet!Plan \in Seq(Seq(STRING))
           /\ Len(Fleet!Plan) = Len(T.before) + Len(T.try) + Len(T.after)
           /\ \A k \in 1..Len(T.before) : Fleet!Plan[k] = T.before[k]
           /\ \A k \in 1..Len(Fleet!Plan) : Len(Fleet!Plan[k]) >= 2
<1> DEFINE a == T.before  b == T.try  c == T.after
<1>1. Fleet!Plan = a \o b \o c
  BY DEF Fleet!Plan, Fleet!S, T
<1>2. /\ a \in Seq(Seq(STRING)) /\ b \in Seq(Seq(STRING)) /\ c \in Seq(Seq(STRING))
      /\ \A k \in 1..Len(a) : Len(a[k]) >= 2
      /\ \A k \in 1..Len(b) : Len(b[k]) >= 2
      /\ \A k \in 1..Len(c) : Len(c[k]) >= 2
  BY TableHas
<1> HIDE DEF a, b, c
<1>3. /\ a \o b \o c \in Seq(Seq(STRING))
      /\ Len(a \o b \o c) = Len(a) + Len(b) + Len(c)
      /\ \A k \in 1..Len(a) : (a \o b \o c)[k] = a[k]
      /\ \A k \in 1..Len(b) : (a \o b \o c)[Len(a) + k] = b[k]
      /\ \A k \in 1..Len(c) : (a \o b \o c)[Len(a) + Len(b) + k] = c[k]
      /\ \A k \in 1..Len(a) + Len(b) + Len(c) :
                \/ k \in 1..Len(a)
                \/ k - Len(a) \in 1..Len(b)
                \/ k - Len(a) - Len(b) \in 1..Len(c)
  BY <1>2, Joined
<1>4. ASSUME NEW k \in 1..Len(a) + Len(b) + Len(c)
      PROVE  Len((a \o b \o c)[k]) >= 2
  <2> DEFINE q == a \o b \o c
  <2>0. Len(a) \in Nat /\ Len(b) \in Nat /\ Len(c) \in Nat
    BY <1>2
  <2> HIDE DEF q
  <2>1. CASE k \in 1..Len(a)
    BY <2>1, <1>2, <1>3
  <2>2. CASE k - Len(a) \in 1..Len(b)
    <3>1. Len(a) + (k - Len(a)) = k  BY <2>0
    <3>. QED BY <2>2, <3>1, <1>2, <1>3
  <2>3. CASE k - Len(a) - Len(b) \in 1..Len(c)
    <3>1. Len(a) + Len(b) + (k - Len(a) - Len(b)) = k  BY <2>0
    <3>. QED BY <2>3, <3>1, <1>2, <1>3
  <2>. QED BY <2>1, <2>2, <2>3, <1>3
<1>. QED BY <1>1, <1>2, <1>3, <1>4 DEF a, b, c

\* So has the list of loops a script goes through.
LEMMA PlanHas ==
    ASSUME script \in DOMAIN Scripts, mode \in Fleet!Running
    PROVE  /\ Fleet!Plan \in Seq(Seq(STRING))
           /\ \A k \in 1..Len(Fleet!Plan) : Len(Fleet!Plan[k]) >= 2
<1>1. CASE mode = "run"
  BY <1>1, RunPlan
<1>2. CASE mode = "undo"
  <2>1. Fleet!Plan = T.undo  BY <1>2 DEF Fleet!Plan, Fleet!S, T
  <2>. QED BY <2>1, TableHas
<1>3. CASE mode = "back"
  <2>1. Fleet!Plan = T.back  BY <1>3 DEF Fleet!Plan, Fleet!S, T
  <2>. QED BY <2>1, TableHas
<1>. QED BY <1>1, <1>2, <1>3 DEF Fleet!Running

\* The statement at which the script is, and what its loop goes through.
LEMMA Statements ==
    ASSUME Placing, mode \in Fleet!Running, left # {}
    PROVE  /\ phase \in 1..Len(Fleet!Plan)
           /\ Len(Fleet!Do) = Len(Fleet!Plan[phase]) - 1
           /\ at \in 1..Len(Fleet!Do)
           /\ Fleet!Do[at] = Fleet!Plan[phase][at + 1]
           /\ Fleet!Over = Fleet!Plan[phase][1]
           /\ <<phase, at + 1>> \in Places(Fleet!Plan)
<1>1. Fleet!Plan \in Seq(Seq(STRING)) /\ \A k \in 1..Len(Fleet!Plan) : Len(Fleet!Plan[k]) >= 2
  BY PlanHas DEF Placing
<1>2. phase \in 1..Len(Fleet!Plan)
  BY <1>1 DEF Placing
<1> DEFINE q == Fleet!Plan[phase]
<1>3. q \in Seq(STRING) /\ Len(q) >= 2 /\ at \in 1..Len(q) - 1
  BY <1>1, <1>2 DEF Placing
<1>4. Fleet!Do = Tail(q) /\ Fleet!Over = Head(q)
  BY DEF Fleet!Do, Fleet!Over
<1>5. phase \in DOMAIN Fleet!Plan
  BY <1>1, <1>2
<1>6. <<phase, at + 1>> \in {<<phase, j>> : j \in 2..Len(q)}
  BY <1>3
<1>7. <<phase, at + 1>> \in Places(Fleet!Plan)
  BY <1>5, <1>6 DEF Places
<1> HIDE DEF q
<1>8. Len(Tail(q)) = Len(q) - 1 /\ Tail(q)[at] = q[at + 1] /\ Head(q) = q[1]
  BY <1>3
<1>. QED BY <1>2, <1>3, <1>4, <1>7, <1>8 DEF q

\* The loop at which a script is has the statement at which it is.
LEMMA LoopNow ==
    ASSUME Placing, mode \in Fleet!Running, left # {}
    PROVE  LoopDoes(Fleet!Plan[phase], {Fleet!Do[at]}) /\ phase \in DOMAIN Fleet!Plan
<1>1. Fleet!Plan \in Seq(Seq(STRING))
  BY PlanHas DEF Placing
<1>2. /\ phase \in 1..Len(Fleet!Plan) /\ at \in 1..Len(Fleet!Plan[phase]) - 1
      /\ Fleet!Do[at] = Fleet!Plan[phase][at + 1]
  BY Statements
<1>3. Len(Fleet!Plan[phase]) \in Nat
  BY <1>1, <1>2
<1>4. at + 1 \in 2..Len(Fleet!Plan[phase])
  BY <1>2, <1>3
<1>. QED BY <1>1, <1>2, <1>4 DEF LoopDoes

LEMMA SameWrites == Fleet!RowWrites = RowWrites
BY DEF Fleet!RowWrites, RowWrites

\* What a statement does when it succeeds.
Effects(t, i) ==
    /\ user' = CASE t = "list" -> [user EXCEPT ![i] = Fleet!After(i, seen[i])]
                 [] t = "listBack" -> [user EXCEPT ![i] = seen[i]]
                 [] OTHER -> user
    /\ row' = IF t \in Fleet!RowWrites THEN [row EXCEPT ![i] = Fleet!RowAfter(t, i)] ELSE row
    /\ seen' = IF t = "users" THEN user ELSE seen
    /\ prev' = IF t = "servers" THEN row ELSE prev
    /\ applied' = CASE t = "note" -> applied \cup {i}
                    [] t = "noteChanged" ->
                         IF Fleet!After(i, seen[i]) # seen[i] THEN applied \cup {i} ELSE applied
                    [] OTHER -> applied
    /\ saved' = IF t \in Fleet!RowWrites /\ mode = "run" THEN saved \cup {i} ELSE saved
    /\ t \in ListBackups => Fleet!FirstLists \subseteq kept'
    /\ t \in RowBackups => Fleet!FirstRows \subseteq kept'
    /\ t # "backupOver" => kept \subseteq kept'
    /\ spoilt' = spoilt

Succeeds(t, i) == Fleet!Now(t, i) /\ Fleet!Advance(i) /\ Effects(t, i)
Throws(t, i) ==
    /\ Fleet!Now(t, i) /\ Fleet!Raise(i) /\ t \notin Notes
    /\ UNCHANGED <<user, row, seen, prev>>
GoesBack(t, i) ==
    /\ Fleet!Now(t, i) /\ t \in {"dry", "dryOrFailing"} /\ Fleet!Leave("back")
    /\ UNCHANGED <<user, row, seen, prev, applied, saved, kept, spoilt>>

\* What it does to the files and to what they are made of.
Stores(t, i) ==
    /\ file' = CASE t \in {"file", "fileOrNote"} -> [file EXCEPT ![i] = Fleet!Body(Fleet!AsWritten(i))]
                 [] t = "refile" -> [file EXCEPT ![i] = Fleet!Body(listed[i])]
                 [] t = "sync" -> [file EXCEPT ![i] = Fleet!Body(user[i])]
                 [] t = "fileBack" -> [file EXCEPT ![i] = Fleet!Body(seen[i])]
                 [] OTHER -> file
    /\ panel' = CASE t = "panel" -> "new" [] t = "panelBack" -> "old" [] OTHER -> panel
    /\ listed' = IF t = "relist" THEN user ELSE listed
    /\ failing => failing'
    /\ runs' = runs

Items == Clients \cup Servers \cup {None}

\* A statement takes effect and the script goes on, or throws, or ends a run
\* without --apply.
LEMMA StepKinds ==
    ASSUME NEW i \in Items, Fleet!Statement(i)
    PROVE  /\ UNCHANGED <<script, apply, origin>>
           /\ \E t : \/ Succeeds(t, i) /\ Stores(t, i)
                     \/ (Throws(t, i) \/ GoesBack(t, i)) /\ UNCHANGED <<file, panel, listed, runs>>
<1> USE DEF Fleet!constant, Fleet!world, Fleet!notes, Fleet!bounds, Fleet!RowWrites,
            ListBackups, RowBackups
<1>1. CASE Fleet!Users_(i)
  <2>1. Succeeds("users", i) /\ Stores("users", i)
    BY <1>1 DEF Fleet!Users_, Succeeds, Effects, Stores
  <2>. QED BY <2>1, <1>1 DEF Fleet!Users_
<1>2. CASE Fleet!Servers_(i)
  <2>1. Succeeds("servers", i) /\ Stores("servers", i)
    BY <1>2 DEF Fleet!Servers_, Succeeds, Effects, Stores
  <2>. QED BY <2>1, <1>2 DEF Fleet!Servers_
<1>3. CASE Fleet!Bodies(i)
  <2>1. Succeeds("bodies", i) /\ Stores("bodies", i)
    BY <1>3 DEF Fleet!Bodies, Succeeds, Effects, Stores
  <2>. QED BY <2>1, <1>3 DEF Fleet!Bodies
<1>4. CASE Fleet!Relist(i)
  <2>1. Succeeds("relist", i) /\ Stores("relist", i)
    BY <1>4 DEF Fleet!Relist, Succeeds, Effects, Stores
  <2>. QED BY <2>1, <1>4 DEF Fleet!Relist
<1>5. CASE Fleet!Dry(i)
  <2> USE DEF Fleet!reads
  <2>1. PICK t \in {"dry", "dryOrFailing"} :
           Fleet!Now(t, i) /\ (Fleet!Advance(i) \/ Fleet!Leave("back"))
    BY <1>5 DEF Fleet!Dry
  <2>2. \/ Succeeds(t, i) /\ Stores(t, i)
        \/ GoesBack(t, i) /\ UNCHANGED <<file, panel, listed, runs>>
    BY <2>1, <1>5 DEF Fleet!Dry, Succeeds, Effects, Stores, GoesBack
  <2>. QED BY <2>2, <1>5 DEF Fleet!Dry
<1>6. CASE Fleet!Backup(i)
  <2> USE DEF Fleet!reads
  <2>1. PICK t \in {"backup", "backupRows", "backupAll", "backupOver", "backupPanel"} :
          /\ Fleet!Now(t, i)
          /\ t \in ListBackups => Fleet!FirstLists \subseteq kept'
          /\ t \in RowBackups => Fleet!FirstRows \subseteq kept'
          /\ t # "backupOver" => kept \subseteq kept'
    BY <1>6 DEF Fleet!Backup, Fleet!KeptAfter
  <2>2. Succeeds(t, i) /\ Stores(t, i)
    BY <2>1, <1>6 DEF Fleet!Backup, Succeeds, Effects, Stores
  <2>. QED BY <2>2, <1>6 DEF Fleet!Backup
<1>7. CASE Fleet!Check(i)
  <2> USE DEF Fleet!reads
  <2>1. PICK t \in Fleet!Demands : Fleet!Now(t, i) /\ ((Fleet!Advance(i) /\ UNCHANGED Fleet!notes) \/ Fleet!Raise(i))
    BY <1>7 DEF Fleet!Check
  <2>2. \/ Succeeds(t, i) /\ Stores(t, i)
        \/ Throws(t, i) /\ UNCHANGED <<file, panel, listed, runs>>
    BY <2>1, <1>7 DEF Fleet!Check, Fleet!Demands, Succeeds, Effects, Stores, Throws, Notes
  <2>. QED BY <2>2, <1>7 DEF Fleet!Check
<1>8. CASE Fleet!Call(i)
  <2>1. Succeeds("call", i) /\ Stores("call", i)
    BY <1>8 DEF Fleet!Call, Fleet!reads, Succeeds, Effects, Stores
  <2>. QED BY <2>1, <1>8 DEF Fleet!Call
<1>9. CASE Fleet!Note(i)
  <2>1. PICK t \in {"notePreview", "noteShown"} : Succeeds(t, i) /\ Stores(t, i)
    BY <1>9 DEF Fleet!Note, Fleet!reads, Succeeds, Effects, Stores
  <2>. QED BY <2>1, <1>9 DEF Fleet!Note
<1>10. CASE Fleet!NoteApplied(i)
  <2>1. PICK t \in {"note", "noteChanged"} : Succeeds(t, i) /\ Stores(t, i)
    BY <1>10 DEF Fleet!NoteApplied, Fleet!reads, Succeeds, Effects, Stores
  <2>. QED BY <2>1, <1>10 DEF Fleet!NoteApplied
<1>11. CASE Fleet!WriteRow(i)
  <2>1. PICK t \in Fleet!RowWrites :
          /\ Fleet!Now(t, i)
          /\ row' = [row EXCEPT ![i] = Fleet!RowAfter(t, i)]
          /\ saved' = IF mode = "run" THEN saved \cup {i} ELSE saved
    BY <1>11 DEF Fleet!WriteRow
  <2>2. Succeeds(t, i) /\ Stores(t, i)
    BY <2>1, <1>11 DEF Fleet!WriteRow, Fleet!reads, Succeeds, Effects, Stores
  <2>. QED BY <2>2, <1>11 DEF Fleet!WriteRow
<1>12. CASE Fleet!WriteUser(i)
  <2>1. PICK t \in {"list", "listBack"} : Succeeds(t, i) /\ Stores(t, i)
    BY <1>12 DEF Fleet!WriteUser, Fleet!reads, Succeeds, Effects, Stores
  <2>. QED BY <2>1, <1>12 DEF Fleet!WriteUser
<1>13. CASE Fleet!WriteFile(i)
  <2>1. PICK t \in {"file", "fileOrNote", "refile", "sync", "fileBack"} : Succeeds(t, i) /\ Stores(t, i)
    BY <1>13 DEF Fleet!WriteFile, Fleet!reads, Succeeds, Effects, Stores
  <2>. QED BY <2>1, <1>13 DEF Fleet!WriteFile
<1>14. CASE Fleet!WritePanel(i)
  <2>1. PICK t \in {"panel", "panelBack"} : Succeeds(t, i) /\ Stores(t, i)
    BY <1>14 DEF Fleet!WritePanel, Fleet!reads, Succeeds, Effects, Stores
  <2>. QED BY <2>1, <1>14 DEF Fleet!WritePanel
<1>15. CASE Fleet!Throw(i)
  <2>1. Throws(Fleet!Do[at], i) /\ UNCHANGED <<file, panel, listed, runs>>
    BY <1>15 DEF Fleet!Throw, Fleet!Sure, Fleet!reads, Throws, Notes
  <2>. QED BY <2>1, <1>15 DEF Fleet!Throw
<1>. QED BY <1>1, <1>2, <1>3, <1>4, <1>5, <1>6, <1>7, <1>8, <1>9, <1>10, <1>11, <1>12,
            <1>13, <1>14, <1>15 DEF Fleet!Statement

\* Where a script is after it has left what it did.
LEMMA LeavingPlaces ==
    ASSUME Placing, UNCHANGED script, NEW m, Fleet!Leave(m)
    PROVE  Placing'
<1>1. script' \in DOMAIN Scripts /\ T' = T
  BY DEF Placing, T
<1>2. left' = {} /\ at' = 1 /\ phase' = 0 /\ mode' = m
  BY DEF Fleet!Leave
<1>3. /\ T.before \in Seq(Seq(STRING)) /\ T.try \in Seq(Seq(STRING))
      /\ T.after \in Seq(Seq(STRING)) /\ T.undo \in Seq(Seq(STRING))
      /\ T.back \in Seq(Seq(STRING))
  BY TableHas DEF Placing
<1>4. ASSUME mode' \in Fleet!Running PROVE Len((Fleet!Plan)') \in Nat
  <2>1. CASE mode' = "run"
    <3>1. (Fleet!Plan)' = T.before \o T.try \o T.after
      BY <2>1, <1>1 DEF Fleet!Plan, Fleet!S, T
    <3> DEFINE a == T.before  b == T.try  c == T.after
    <3>2. a \in Seq(Seq(STRING)) /\ b \in Seq(Seq(STRING)) /\ c \in Seq(Seq(STRING))
      BY <1>3
    <3> HIDE DEF a, b, c
    <3>3. Len(a \o b \o c) \in Nat
      BY <3>2
    <3>. QED BY <3>1, <3>3 DEF a, b, c
  <2>2. CASE mode' = "undo"
    <3>1. (Fleet!Plan)' = T.undo  BY <2>2, <1>1 DEF Fleet!Plan, Fleet!S, T
    <3>. QED BY <3>1, <1>3
  <2>3. CASE mode' = "back"
    <3>1. (Fleet!Plan)' = T.back  BY <2>3, <1>1 DEF Fleet!Plan, Fleet!S, T
    <3>. QED BY <3>1, <1>3
  <2>. QED BY <1>4, <2>1, <2>2, <2>3 DEF Fleet!Running
<1>. QED BY <1>1, <1>2, <1>4 DEF Placing, Fleet!Running

\* The script stays at a statement of a loop it has: as it enters a loop,
LEMMA EnteringPlaces ==
    ASSUME Placing, Fleet!Enter
    PROVE  Placing'
<1>1. script' = script /\ mode \in Fleet!Running /\ left = {} /\ at = 1
  BY DEF Fleet!Enter, Fleet!constant, Placing
<1>2. CASE phase = Len(Fleet!Plan)
  <2>1. PICK m : Fleet!Leave(m)
    BY <1>2 DEF Fleet!Enter
  <2>. QED BY <1>1, <2>1, LeavingPlaces
<1>3. CASE phase # Len(Fleet!Plan)
  <2>1. /\ phase' = phase + 1 /\ mode' = mode /\ at' = 1 /\ script' = script
    BY <1>1, <1>3 DEF Fleet!Enter
  <2>2. (Fleet!Plan)' = Fleet!Plan
    BY <2>1 DEF Fleet!Plan, Fleet!S
  <2>3. /\ Fleet!Plan \in Seq(Seq(STRING))
        /\ \A k \in 1..Len(Fleet!Plan) : Len(Fleet!Plan[k]) >= 2
    BY <1>1, PlanHas DEF Placing
  <2>4. phase \in 0..Len(Fleet!Plan)
    BY <1>1 DEF Placing
  <2>5. phase' \in 1..Len(Fleet!Plan)
    BY <2>1, <2>3, <2>4, <1>3
  <2>6. Len(Fleet!Plan[phase']) >= 2 /\ Len(Fleet!Plan[phase']) \in Nat
    BY <2>3, <2>5
  <2>7. phase' \in 0..Len(Fleet!Plan) /\ phase' # 0
    BY <2>3, <2>5
  <2>8. 1 <= Len(Fleet!Plan[phase']) - 1
    BY <2>6
  <2>. QED BY <1>1, <2>1, <2>2, <2>7, <2>8 DEF Placing
<1>. QED BY <1>2, <1>3

\* as it goes on in it,
LEMMA AdvancingPlaces ==
    ASSUME Placing, UNCHANGED script, NEW i, NEW t, Fleet!Now(t, i), Fleet!Advance(i)
    PROVE  Placing'
<1>1. mode \in Fleet!Running /\ i \in left /\ mode' = mode /\ phase' = phase
  BY DEF Fleet!Now, Fleet!Advance
<1>2. (Fleet!Plan)' = Fleet!Plan
  BY <1>1 DEF Fleet!Plan, Fleet!S
<1>3. /\ at \in 1..Len(Fleet!Do) /\ Len(Fleet!Do) = Len(Fleet!Plan[phase]) - 1
  BY <1>1, Statements
<1>4. CASE at = Len(Fleet!Do)
  <2>1. at' = 1 /\ left' = left \ {i}
    BY <1>4 DEF Fleet!Advance
  <2>. QED BY <1>1, <1>2, <1>3, <2>1 DEF Placing
<1>5. CASE at # Len(Fleet!Do)
  <2>1. at' = at + 1 /\ left' = left
    BY <1>5 DEF Fleet!Advance
  <2>. QED BY <1>1, <1>2, <1>3, <1>5, <2>1 DEF Placing
<1>. QED BY <1>4, <1>5

\* as it throws.
LEMMA RaisingPlaces ==
    ASSUME Placing, UNCHANGED script, NEW i, NEW t, Fleet!Now(t, i), Fleet!Raise(i)
    PROVE  Placing'
<1>1. mode \in Fleet!Running /\ i \in left
  BY DEF Fleet!Now
<1>2. CASE Fleet!Advance(i)
  BY <1>2, AdvancingPlaces
<1>3. CASE \E m : Fleet!Leave(m)
  BY <1>3, LeavingPlaces
<1>4. CASE left' = left \ {i} /\ at' = 1 /\ UNCHANGED <<mode, phase>>
  <2>1. (Fleet!Plan)' = Fleet!Plan
    BY <1>4 DEF Fleet!Plan, Fleet!S
  <2>2. at \in 1..Len(Fleet!Plan[phase]) - 1 /\ Len(Fleet!Plan[phase]) - 1 >= 1
    BY <1>1, Statements
  <2>. QED BY <1>1, <1>4, <2>1, <2>2 DEF Placing
<1>. QED BY <1>2, <1>3, <1>4 DEF Fleet!Raise

-----------------------------------------------------------------------------
(* Before and after a statement that is done for certain *)

\* The script has not done the statement at p in this run.
Ahead(p) ==
    /\ mode = "run"
    /\ phase < p[1] \/ (phase = p[1] /\ left # {} /\ at < p[2])

\* Places of `before' are places of a run.
LEMMA PlacesAre ==
    ASSUME NEW loops \in Seq(Seq(STRING)), NEW p \in Places(loops)
    PROVE  /\ p[1] \in 1..Len(loops)
           /\ p[2] \in 2..Len(loops[p[1]])
           /\ p = <<p[1], p[2]>>
<1>1. PICK k \in DOMAIN loops : p \in {<<k, j>> : j \in 2..Len(loops[k])}
  BY DEF Places
<1>2. PICK j \in 2..Len(loops[k]) : p = <<k, j>>
  BY <1>1
<1>3. DOMAIN loops = 1..Len(loops)
  OBVIOUS
<1>. QED BY <1>1, <1>2, <1>3

\* A certain place is in a loop that is gone through once.
LEMMA CertainIs ==
    ASSUME script \in DOMAIN Scripts, NEW p, NEW s, Certain(T.before, p, s)
    PROVE  /\ p[1] \in 1..Len(T.before)
           /\ p[2] \in 2..Len(T.before[p[1]])
           /\ p[1] \in Nat /\ p[2] \in Nat /\ Len(T.before) \in Nat
           /\ T.before[p[1]][p[2]] = s
           /\ T.before[p[1]][1] = "once"
           /\ \A j \in 2..p[2] : T.before[p[1]][j] \notin {"sync", "fileOrNote"}
<1>1. T.before \in Seq(Seq(STRING)) /\ p \in Places(T.before)
  BY TableHas DEF Certain
<1>2. p[1] \in 1..Len(T.before) /\ p[2] \in 2..Len(T.before[p[1]])
  BY <1>1, PlacesAre
<1>3. Len(T.before) \in Nat /\ T.before[p[1]] \in Seq(STRING)
  BY <1>1, <1>2
<1>4. Len(T.before[p[1]]) \in Nat
  BY <1>3
<1>. QED BY <1>2, <1>3, <1>4 DEF Certain

\* Where it is, in the loops before those it may undo.
LEMMA AheadIs ==
    ASSUME Placing, NEW p, NEW s, Certain(T.before, p, s), Ahead(p), left # {}
    PROVE  /\ phase \in 1..p[1] /\ phase \in 1..Len(T.before)
           /\ at \in 1..Len(Fleet!Do)
           /\ Len(Fleet!Do) = Len(T.before[phase]) - 1
           /\ Fleet!Do[at] = T.before[phase][at + 1]
           /\ Fleet!Over = T.before[phase][1]
           /\ <<phase, at + 1>> \in Places(T.before)
<1>1. mode = "run" /\ mode \in Fleet!Running /\ script \in DOMAIN Scripts
  BY DEF Ahead, Fleet!Running, Placing
<1>2. /\ phase \in 1..Len(Fleet!Plan)
      /\ Len(Fleet!Do) = Len(Fleet!Plan[phase]) - 1
      /\ at \in 1..Len(Fleet!Do)
      /\ Fleet!Do[at] = Fleet!Plan[phase][at + 1]
      /\ Fleet!Over = Fleet!Plan[phase][1]
  BY <1>1, Statements
<1>3. p[1] \in 1..Len(T.before) /\ p[1] \in Nat /\ Len(T.before) \in Nat
  BY <1>1, CertainIs
<1>4. phase \in 1..p[1] /\ phase \in 1..Len(T.before)
  BY <1>2, <1>3 DEF Ahead
<1>5. Fleet!Plan[phase] = T.before[phase]
  BY <1>1, <1>4, RunPlan
<1>6. T.before \in Seq(Seq(STRING))
  BY <1>1, TableHas
<1>7. T.before[phase] \in Seq(STRING) /\ DOMAIN T.before = 1..Len(T.before)
  BY <1>4, <1>6
<1>8. at + 1 \in 2..Len(T.before[phase])
  BY <1>2, <1>5, <1>7
<1>9. <<phase, at + 1>> \in Places(T.before)
  BY <1>4, <1>7, <1>8 DEF Places
<1>. QED BY <1>2, <1>4, <1>5, <1>9

\* It passes p only by the statement there.
LEMMA AdvanceAhead ==
    ASSUME Placing, NEW p, NEW s, Certain(T.before, p, s), Ahead(p),
           NEW i, NEW t, Fleet!Now(t, i), Fleet!Advance(i)
    PROVE  \/ Ahead(p)'
           \/ phase = p[1] /\ at + 1 = p[2] /\ t = s
<1>1. /\ i \in left /\ Fleet!Do[at] = t
      /\ mode' = mode /\ phase' = phase /\ mode = "run"
  BY DEF Fleet!Now, Fleet!Advance, Ahead
<1>2. CASE phase < p[1]
  BY <1>1, <1>2 DEF Ahead
<1>3. CASE phase = p[1] /\ at < p[2]
  <2>1. /\ at \in 1..Len(Fleet!Do) /\ Len(Fleet!Do) = Len(T.before[p[1]]) - 1
        /\ Fleet!Do[at] = T.before[p[1]][at + 1]
    BY <1>1, <1>3, AheadIs
  <2>2. p[2] \in 2..Len(T.before[p[1]]) /\ p[2] \in Nat /\ T.before[p[1]][p[2]] = s
    BY CertainIs DEF Placing
  <2>3. CASE at + 1 = p[2]
    BY <1>1, <1>3, <2>1, <2>2, <2>3
  <2>4. CASE at + 1 # p[2]
    <3>1. at + 1 < p[2] /\ at # Len(Fleet!Do)
      BY <1>3, <2>1, <2>2, <2>4
    <3>2. at' = at + 1 /\ left' = left
      BY <3>1 DEF Fleet!Advance
    <3>. QED BY <1>1, <1>3, <3>1, <3>2 DEF Ahead
  <2>. QED BY <2>3, <2>4
<1>. QED BY <1>2, <1>3 DEF Ahead

\* An exception before p does not take the script past it.
LEMMA RaiseAhead ==
    ASSUME Placing, NEW p, NEW s, Certain(T.before, p, s), Ahead(p),
           NEW i, NEW t, Fleet!Now(t, i), Fleet!Raise(i)
    PROVE  Ahead(p)' \/ mode' = "failed"
<1>1. i \in left /\ mode = "run" /\ script \in DOMAIN Scripts
  BY DEF Fleet!Now, Ahead, Placing
<1>2. /\ phase \in 1..p[1] /\ phase \in 1..Len(T.before)
      /\ at \in 1..Len(Fleet!Do) /\ at \in Nat
      /\ Fleet!Do[at] = T.before[phase][at + 1]
      /\ Fleet!Over = T.before[phase][1]
  BY <1>1, AheadIs DEF Placing
<1>3. /\ p[1] \in Nat /\ p[2] \in Nat /\ Len(T.before) \in Nat
      /\ T.before[p[1]][1] = "once"
      /\ \A j \in 2..p[2] : T.before[p[1]][j] \notin {"sync", "fileOrNote"}
  BY <1>1, CertainIs
<1>4. CASE Fleet!Over = "caught" \/ Fleet!Do[at] \in {"sync", "fileOrNote"}
  <2>1. mode' = mode /\ phase' = phase
    BY <1>1, <1>4 DEF Fleet!Raise
  <2>2. phase # p[1]
    <3> SUFFICES ASSUME phase = p[1] PROVE FALSE
      OBVIOUS
    <3>1. at + 1 \in 2..p[2]
      BY <1>2, <1>3 DEF Ahead
    <3>. QED BY <1>2, <1>3, <1>4, <3>1
  <2>. QED BY <1>1, <1>2, <1>3, <2>1, <2>2 DEF Ahead
<1>5. CASE ~(Fleet!Over = "caught" \/ Fleet!Do[at] \in {"sync", "fileOrNote"})
  <2> DEFINE b == Len(T.before)  c == Len(T.try)
  <2>0. T.try \in Seq(Seq(STRING))
    BY <1>1, TableHas
  <2>1. b \in Nat /\ c \in Nat /\ phase \in 1..b
    BY <1>2, <1>3, <2>0
  <2>2. Fleet!Trying => phase \in b + 1 .. b + c
    BY DEF Fleet!Trying, Fleet!S, T
  <2> HIDE DEF b, c
  <2>3. ~Fleet!Trying
    BY <2>1, <2>2
  <2>. QED BY <1>1, <1>5, <2>3 DEF Fleet!Raise, Fleet!Leave
<1>. QED BY <1>4, <1>5

\* Entering a loop passes no certain place.
LEMMA EnterAhead ==
    ASSUME Placing, NEW p, NEW s, Certain(T.before, p, s), Ahead(p), Fleet!Enter
    PROVE  Ahead(p)'
<1>1. left = {} /\ at = 1 /\ mode = "run" /\ script \in DOMAIN Scripts
  BY DEF Fleet!Enter, Placing, Ahead
<1>2. /\ p[1] \in 1..Len(T.before) /\ p[1] \in Nat /\ p[2] \in Nat
      /\ p[2] \in 2..Len(T.before[p[1]]) /\ Len(T.before) \in Nat
      /\ T.before[p[1]][1] = "once"
  BY <1>1, CertainIs
<1>3. phase < p[1] /\ phase \in Nat
  BY <1>1 DEF Ahead, Placing, Fleet!Running
<1>4. /\ Fleet!Plan \in Seq(Seq(STRING)) /\ Len(Fleet!Plan) = Len(T.before) + Len(T.try) + Len(T.after)
      /\ \A k \in 1..Len(T.before) : Fleet!Plan[k] = T.before[k]
  BY <1>1, RunPlan
<1>5. T.try \in Seq(Seq(STRING)) /\ T.after \in Seq(Seq(STRING)) /\ T.before \in Seq(Seq(STRING))
  BY <1>1, TableHas
<1>6. Len(T.try) \in Nat /\ Len(T.after) \in Nat
  BY <1>5
<1>7. phase # Len(Fleet!Plan)
  <2>1. Len(Fleet!Plan) = Len(T.before) + Len(T.try) + Len(T.after)
    BY <1>4
  <2>2. p[1] <= Len(T.before) /\ Len(T.before) \in Nat /\ p[1] \in Nat
    BY <1>2
  <2> DEFINE a == Len(T.before)  b == Len(T.try)  c == Len(T.after)  d == Len(Fleet!Plan)  e == p[1]
  <2>3. a \in Nat /\ b \in Nat /\ c \in Nat /\ e \in Nat /\ d = a + b + c /\ e <= a
        /\ phase < e /\ phase \in Nat
    BY <1>3, <1>6, <2>1, <2>2
  <2> HIDE DEF a, b, c, d, e
  <2>4. phase # d
    BY <2>3
  <2>. QED BY <2>4 DEF d
<1>8. phase' = phase + 1 /\ left' = Fleet!Items(Head(Fleet!Plan[phase + 1])) /\ mode' = mode /\ at' = at
  BY <1>7 DEF Fleet!Enter
<1>9. CASE phase + 1 = p[1]
  <2>1. T.before[p[1]] \in Seq(STRING)
    BY <1>2, <1>5
  <2>2. Fleet!Plan[phase + 1] = T.before[p[1]]
    BY <1>2, <1>4, <1>9
  <2>3. Head(T.before[p[1]]) = "once"
    BY <1>2, <2>1
  <2>4. left' = {None}
    BY <1>8, <2>2, <2>3 DEF Fleet!Items
  <2>5. 1 < p[2]
    BY <1>2
  <2>6. left' # {} /\ phase' = p[1] /\ at' = 1 /\ mode' = "run"
    BY <1>1, <1>8, <1>9, <2>4
  <2>. QED BY <2>5, <2>6 DEF Ahead
<1>10. CASE phase + 1 # p[1]
  BY <1>1, <1>2, <1>3, <1>8, <1>10 DEF Ahead
<1>. QED BY <1>9, <1>10

\* A script that is run again has every place ahead.
LEMMA AgainAhead ==
    ASSUME Placing, UNCHANGED script, NEW p, NEW s, Certain(T.before, p, s), Fleet!Again
    PROVE  Ahead(p)'
<1>1. p[1] \in 1..Len(T.before) /\ p[1] \in Nat
  BY CertainIs DEF Placing
<1>. QED BY <1>1 DEF Fleet!Again, Fleet!Leave, Ahead

-----------------------------------------------------------------------------
(* What a script may write before it has kept what it read *)

\* Where a script that writes is: past the backup, or undoing.
LEMMA WritesAfterKeeping ==
    ASSUME Placing, mode \in Fleet!Running, left # {},
           NEW p, NEW q, NEW read, NEW keep, NEW writes,
           KeepsFirst(T, p, q, read, keep, writes), keep \notin writes,
           Fleet!Do[at] \in writes
    PROVE  mode = "undo" \/ (mode = "run" /\ ~Ahead(p))
<1>1. CASE mode = "back"
  <2>1. Fleet!Plan = T.back
    BY <1>1 DEF Fleet!Plan, Fleet!S, T
  <2>2. /\ <<phase, at + 1>> \in Places(T.back)
        /\ Fleet!Do[at] = T.back[phase][at + 1]
    BY <2>1, Statements
  <2>3. \A r \in Places(T.back) : T.back[r[1]][r[2]] \notin writes
    BY DEF KeepsFirst, Does
  <2>. QED BY <2>2, <2>3
<1>2. ASSUME Ahead(p) PROVE FALSE
  <2>1. Certain(T.before, p, keep)
    BY DEF KeepsFirst
  <2>2. /\ phase \in 1..p[1] /\ phase \in 1..Len(T.before)
        /\ Fleet!Do[at] = T.before[phase][at + 1]
        /\ <<phase, at + 1>> \in Places(T.before)
    BY <1>2, <2>1, AheadIs
  <2>3. T.before[p[1]][p[2]] = keep /\ p[1] \in Nat /\ p[2] \in Nat
    BY <2>1, CertainIs DEF Placing
  <2>4. phase < p[1] \/ (phase = p[1] /\ at + 1 <= p[2])
    BY <1>2, <2>3 DEF Ahead, Placing
  <2>5. Earlier(<<phase, at + 1>>, p)
    BY <2>2, <2>3, <2>4 DEF Earlier, Placing
  <2>. QED BY <2>2, <2>5 DEF KeepsFirst
<1>. QED BY <1>1, <1>2 DEF Fleet!Running

\* What is read is read before it is kept.
LEMMA ReadBeforeKept ==
    ASSUME Placing, NEW p, NEW q, NEW read, NEW keep, NEW writes,
           KeepsFirst(T, p, q, read, keep, writes), Ahead(q)
    PROVE  /\ Ahead(p)
           /\ ~(phase = p[1] /\ at + 1 = p[2])
<1>1. /\ p[1] \in Nat /\ p[2] \in Nat /\ q[1] \in Nat /\ q[2] \in Nat
  BY CertainIs DEF KeepsFirst, Placing
<1>2. Earlier(q, p)
  BY DEF KeepsFirst
<1>3. phase \in Nat /\ at \in Nat
  BY DEF Placing, Ahead, Fleet!Running
<1>. QED BY <1>1, <1>2, <1>3 DEF Earlier, Ahead

\* A script that goes over to undoing was past all that comes before.
LEMMA UndoesLater ==
    ASSUME Placing, NEW p, NEW s, Certain(T.before, p, s),
           NEW i, NEW t, Fleet!Now(t, i), Fleet!Raise(i), mode' = "undo"
    PROVE  mode = "undo" \/ (mode = "run" /\ ~Ahead(p))
<1>1. mode \in Fleet!Running
  BY DEF Fleet!Now
<1>2. CASE mode = "back"
  <2>1. mode' # "undo"
    BY <1>2 DEF Fleet!Raise, Fleet!Advance, Fleet!Leave, Fleet!Trying
  <2>. QED BY <2>1
<1>3. CASE mode = "run" /\ Ahead(p)
  BY <1>3, RaiseAhead DEF Ahead
<1>. QED BY <1>1, <1>2, <1>3 DEF Fleet!Running

-----------------------------------------------------------------------------
(* Servers *)

RowsAt(p, q, b) ==
    /\ b \in RowBackups
    /\ KeepsFirst(T, p, q, "servers", b, RowWrites)
    /\ \/ Servers \subseteq kept
       \/ /\ row = origin.row
          /\ mode # "undo"
          /\ mode = "run" => Ahead(p)
          /\ mode = "run" => prev = origin.row \/ Ahead(q)

\* A script that never does some statements is not at one.
LEMMA NeverAt ==
    ASSUME Placing, NEW ss, Never(T, ss), NEW t, NEW i, Fleet!Now(t, i)
    PROVE  t \notin ss
<1>1. mode \in Fleet!Running /\ left # {} /\ Fleet!Do[at] = t
  BY DEF Fleet!Now
<1>2. Fleet!Plan \in {Course(T), T.undo, T.back}
  BY <1>1 DEF Fleet!Plan, Fleet!S, T, Course, Fleet!Running
<1>3. ~Does(Fleet!Plan, ss)
  BY <1>2 DEF Never
<1>4. <<phase, at + 1>> \in Places(Fleet!Plan) /\ Fleet!Do[at] = Fleet!Plan[phase][at + 1]
  BY <1>1, Statements
<1>. QED BY <1>1, <1>3, <1>4 DEF Does

NoOver == Never(T, {"backupOver"})

\* Servers are kept before they are written: as a statement succeeds,
LEMMA RowsMove ==
    ASSUME Placing, NoOver, NEW p, NEW q, NEW b, RowsAt(p, q, b), UNCHANGED <<script, origin>>,
           NEW i \in Items, NEW t, Succeeds(t, i)
    PROVE  RowsAt(p, q, b)'
<1>1. /\ mode \in Fleet!Running /\ left # {} /\ Fleet!Do[at] = t
      /\ mode' = mode /\ Fleet!Now(t, i) /\ Fleet!Advance(i) /\ Effects(t, i)
  BY DEF Succeeds, Fleet!Now, Fleet!Advance
<1>2. t # "backupOver"
  BY <1>1, NeverAt DEF NoOver
<1>3. KeepsFirst(T, p, q, "servers", b, RowWrites)'
  BY DEF RowsAt, T
<1>4. Certain(T.before, p, b) /\ Certain(T.before, q, "servers")
  BY DEF RowsAt, KeepsFirst
<1>5. kept \subseteq kept'
  BY <1>1, <1>2 DEF Effects
<1>6. CASE Servers \subseteq kept
  BY <1>3, <1>5, <1>6 DEF RowsAt
<1>7. CASE ~(Servers \subseteq kept)
  <2>1. /\ row = origin.row /\ mode # "undo"
        /\ mode = "run" => Ahead(p)
        /\ mode = "run" => prev = origin.row \/ Ahead(q)
    BY <1>7 DEF RowsAt
  <2>2. t \notin RowWrites
    <3>1. b \notin RowWrites
      BY DEF RowsAt, RowBackups, RowWrites
    <3>. QED BY <1>1, <2>1, <3>1, WritesAfterKeeping DEF RowsAt
  <2>3. row' = origin'.row /\ mode' # "undo"
    BY <1>1, <2>1, <2>2, SameWrites DEF Effects
  <2>4. CASE mode # "run"
    BY <1>1, <1>3, <2>3, <2>4 DEF RowsAt
  <2>5. CASE mode = "run"
    <3>1. \/ Ahead(p)'
          \/ phase = p[1] /\ at + 1 = p[2] /\ t = b
      BY <1>1, <1>4, <2>1, <2>5, AdvanceAhead
    <3>2. (prev = origin.row)' \/ Ahead(q)'
      <4>1. CASE t = "servers"
        BY <1>1, <2>1, <4>1 DEF Effects
      <4>2. CASE t # "servers" /\ prev = origin.row
        BY <1>1, <4>2 DEF Effects
      <4>3. CASE t # "servers" /\ Ahead(q)
        BY <1>1, <1>4, <4>3, AdvanceAhead
      <4>. QED BY <2>1, <2>5, <4>1, <4>2, <4>3
    <3>3. CASE Ahead(p)'
      BY <1>3, <2>3, <3>2, <3>3 DEF RowsAt
    <3>4. CASE phase = p[1] /\ at + 1 = p[2] /\ t = b
      <4>1. ~Ahead(q)
        BY <3>4, ReadBeforeKept DEF RowsAt
      <4>2. prev = origin.row
        BY <2>1, <2>5, <4>1
      <4>3. Fleet!FirstRows \subseteq kept'
        BY <1>1, <3>4 DEF Effects, RowsAt
      <4>4. Servers \subseteq kept'
        BY <4>2, <4>3 DEF Fleet!FirstRows, Fleet!Servers, Servers
      <4>. QED BY <1>3, <4>4 DEF RowsAt
    <3>. QED BY <3>1, <3>3, <3>4
  <2>. QED BY <2>4, <2>5
<1>. QED BY <1>6, <1>7

\* as one throws,
LEMMA RowsRaise ==
    ASSUME Placing, NEW p, NEW q, NEW b, RowsAt(p, q, b), UNCHANGED <<script, origin>>,
           NEW i, NEW t, Throws(t, i)
    PROVE  RowsAt(p, q, b)'
<1>1. /\ Fleet!Now(t, i) /\ Fleet!Raise(i) /\ UNCHANGED <<row, prev, kept>>
  BY DEF Throws, Fleet!Raise
<1>2. KeepsFirst(T, p, q, "servers", b, RowWrites)'
  BY DEF RowsAt, T
<1>3. Certain(T.before, p, b) /\ Certain(T.before, q, "servers")
  BY DEF RowsAt, KeepsFirst
<1>4. CASE Servers \subseteq kept
  BY <1>1, <1>2, <1>4 DEF RowsAt
<1>5. CASE ~(Servers \subseteq kept)
  <2>1. /\ row = origin.row /\ mode # "undo"
        /\ mode = "run" => Ahead(p)
        /\ mode = "run" => prev = origin.row \/ Ahead(q)
    BY <1>5 DEF RowsAt
  <2>2. mode' # "undo"
    BY <1>1, <1>3, <2>1, UndoesLater
  <2>3. mode' = "run" => mode = "run"
    BY <1>1 DEF Fleet!Raise, Fleet!Advance, Fleet!Leave
  <2>4. mode' = "run" => Ahead(p)'
    BY <1>1, <1>3, <2>1, <2>3, RaiseAhead
  <2>5. mode' = "run" => prev' = origin'.row \/ Ahead(q)'
    <3>1. mode' = "run" /\ Ahead(q) => Ahead(q)'
      BY <1>1, <1>3, RaiseAhead
    <3>. QED BY <1>1, <2>1, <2>3, <3>1
  <2>6. row' = origin'.row
    BY <1>1, <2>1
  <2>. QED BY <1>2, <2>2, <2>4, <2>5, <2>6 DEF RowsAt
<1>. QED BY <1>4, <1>5

\* Any step of a script of which it is known.
LEMMA RowsStep ==
    ASSUME Placing, NoOver, NEW p, NEW q, NEW b, RowsAt(p, q, b), Fleet!Next
    PROVE  RowsAt(p, q, b)'
<1>1. CASE Fleet!Enter
  <2>1. UNCHANGED <<script, origin, row, prev, kept>>
    BY <1>1 DEF Fleet!Enter, Fleet!world, Fleet!reads, Fleet!notes, Fleet!constant
  <2>2. KeepsFirst(T, p, q, "servers", b, RowWrites)'
    BY <2>1 DEF RowsAt, T
  <2>3. mode' \in {"ok", "undone", "dry"} \/ mode' = mode
    BY <1>1 DEF Fleet!Enter, Fleet!Leave, Fleet!Running
  <2>4. Certain(T.before, p, b) /\ Certain(T.before, q, "servers")
    BY DEF RowsAt, KeepsFirst
  <2>5. (Ahead(p) => Ahead(p)') /\ (Ahead(q) => Ahead(q)')
    BY <1>1, <2>4, EnterAhead
  <2>. QED BY <2>1, <2>2, <2>3, <2>5 DEF RowsAt
<1>2. CASE Fleet!Kill
  <2>1. UNCHANGED <<script, origin, row, prev, kept>> /\ mode' = "killed"
    BY <1>2 DEF Fleet!Kill, Fleet!Leave, Fleet!world, Fleet!reads, Fleet!notes, Fleet!constant
  <2>2. KeepsFirst(T, p, q, "servers", b, RowWrites)'
    BY <2>1 DEF RowsAt, T
  <2>. QED BY <2>1, <2>2 DEF RowsAt
<1>3. CASE Fleet!Again
  <2>1. UNCHANGED <<script, origin, row, kept>> /\ mode' = "run"
    BY <1>3 DEF Fleet!Again, Fleet!Leave, Fleet!world, Fleet!constant
  <2>2. KeepsFirst(T, p, q, "servers", b, RowWrites)'
    BY <2>1 DEF RowsAt, T
  <2>3. Certain(T.before, p, b) /\ Certain(T.before, q, "servers")
    BY DEF RowsAt, KeepsFirst
  <2>4. Ahead(p)' /\ Ahead(q)'
    BY <1>3, <2>1, <2>3, AgainAhead
  <2>. QED BY <2>1, <2>2, <2>4 DEF RowsAt
<1>4. ASSUME NEW i \in Items, Fleet!Statement(i)
      PROVE  RowsAt(p, q, b)'
  <2>1. UNCHANGED <<script, origin>>
    BY <1>4, StepKinds
  <2>2. PICK t : Succeeds(t, i) \/ Throws(t, i) \/ GoesBack(t, i)
    BY <1>4, StepKinds
  <2>3. CASE Succeeds(t, i)
    BY <2>1, <2>3, RowsMove
  <2>4. CASE Throws(t, i)
    BY <2>1, <2>4, RowsRaise
  <2>5. CASE GoesBack(t, i)
    <3>1. UNCHANGED <<row, prev, kept>> /\ mode' = "back"
      BY <2>5 DEF GoesBack, Fleet!Leave
    <3>2. KeepsFirst(T, p, q, "servers", b, RowWrites)'
      BY <2>1 DEF RowsAt, T
    <3>. QED BY <2>1, <3>1, <3>2 DEF RowsAt
  <2>. QED BY <2>2, <2>3, <2>4, <2>5
<1>. QED BY <1>1, <1>2, <1>3, <1>4 DEF Fleet!Next, Fleet!Servers, Servers, Items

-----------------------------------------------------------------------------
(* Lists *)

Clients0 == {u \in Clients : origin.user[u] # None}
Unread(us) == \A u \in Clients : origin.user[u] = None => us[u] = None
Overs == Fleet!Over \in UserLoops

ListsAt(p, q, b) ==
    /\ b \in ListBackups
    /\ KeepsFirst(T, p, q, "users", b, ListWrites \cup Notes)
    /\ user = [u \in Clients |-> user[u]] /\ Unread(user)
    /\ applied \cap Clients \subseteq Clients0
    /\ \/ Clients0 \subseteq kept
       \/ /\ user = origin.user
          /\ mode # "undo"
          /\ mode = "run" => Ahead(p)
          /\ mode = "run" => seen = origin.user \/ Ahead(q)
    /\ mode = "undo" \/ (mode = "run" /\ ~Ahead(q)) => Unread(seen)
    /\ mode = "undo" \/ (mode = "run" /\ ~Ahead(p)) =>
          (left # {} /\ Overs => left \cap Clients \subseteq Clients0)

\* What a loop over clients goes through are clients that were there.
LEMMA UserItems ==
    ASSUME script \in DOMAIN Scripts, Unread(seen), applied \cap Clients \subseteq Clients0,
           NEW over \in UserLoops
    PROVE  Fleet!Items(over) \cap Clients \subseteq Clients0
<1>1. Fleet!Known(seen) \subseteq Clients0
  BY DEF Fleet!Known, Unread, Clients0
<1>2. T.who \in {"all", "vip", "affected", "holders", "empty"}
  BY LoopsAssumption DEF T, IsScript
<1>3. Fleet!Selected(seen) \subseteq Fleet!Known(seen)
  BY <1>2 DEF Fleet!Selected, Fleet!S, T
<1>. QED BY <1>1, <1>3 DEF Fleet!Items, UserLoops

\* Clients are written and noted in loops over clients.
LEMMA InUserLoop ==
    ASSUME Placing, mode \in Fleet!Running, left # {}, Fleet!Do[at] \in ListWrites \cup Notes
    PROVE  Overs
<1>1. Fleet!Plan \in {Course(T), T.undo, T.back}
  BY DEF Fleet!Plan, Fleet!S, T, Course, Fleet!Running
<1>2. \A loops \in {Course(T), T.undo, T.back} : \A k \in DOMAIN loops :
         LoopDoes(loops[k], ListWrites \cup Notes) => loops[k][1] \in UserLoops
  BY LoopsAssumption DEF Placing, T, IsScript
<1>3. LoopDoes(Fleet!Plan[phase], {Fleet!Do[at]}) /\ phase \in DOMAIN Fleet!Plan
      /\ Fleet!Over = Fleet!Plan[phase][1]
  BY LoopNow, Statements
<1>4. LoopDoes(Fleet!Plan[phase], ListWrites \cup Notes)
  BY <1>3 DEF LoopDoes
<1>5. Fleet!Plan[phase][1] \in UserLoops
  BY <1>1, <1>2, <1>3, <1>4
<1>. QED BY <1>3, <1>5 DEF Overs

\* A loop that goes on goes through the rest of the same items.
LEMMA SameLoop ==
    ASSUME Placing, UNCHANGED script, NEW i, NEW t, Fleet!Now(t, i),
           Fleet!Advance(i) \/ Fleet!Raise(i),
           mode' = mode, left' # {}
    PROVE  /\ left' \subseteq left /\ left # {} /\ phase' = phase
           /\ (Fleet!Over)' = Fleet!Over
<1>1. mode \in Fleet!Running /\ i \in left
  BY DEF Fleet!Now
<1>2. left' \subseteq left /\ phase' = phase
  BY DEF Fleet!Advance, Fleet!Raise, Fleet!Leave
<1>3. (Fleet!Over)' = Fleet!Over
  BY <1>2 DEF Fleet!Over, Fleet!Plan, Fleet!S
<1>. QED BY <1>1, <1>2, <1>3

\* What is written of a client, and noted, is of one that was there.
LEMMA WritesKnown ==
    ASSUME Placing, NEW p, NEW q, NEW b, ListsAt(p, q, b), NEW i, NEW t, Fleet!Now(t, i),
           t \in ListWrites \cup Notes
    PROVE  /\ Clients0 \subseteq kept
           /\ i \in Clients => i \in Clients0
<1>1. mode \in Fleet!Running /\ i \in left /\ left # {} /\ Fleet!Do[at] = t
  BY DEF Fleet!Now
<1>2. b \notin ListWrites \cup Notes
  BY DEF ListsAt, ListBackups, ListWrites, Notes
<1>3. mode = "undo" \/ (mode = "run" /\ ~Ahead(p))
  BY <1>1, <1>2, WritesAfterKeeping DEF ListsAt
<1>4. Overs
  BY <1>1, InUserLoop
<1>. QED BY <1>1, <1>3, <1>4 DEF ListsAt

\* The part about what it goes through, when a loop goes on.
LEMMA LoopGoesOn ==
    ASSUME Placing, UNCHANGED <<script, origin>>, NEW p, NEW q, NEW b, ListsAt(p, q, b),
           NEW i, NEW t, Fleet!Now(t, i), Fleet!Advance(i) \/ Fleet!Raise(i),
           mode' = "undo" \/ (mode' = "run" /\ ~Ahead(p)'), left' # {}, Overs'
    PROVE  left' \cap Clients \subseteq Clients0
<1>1. mode \in Fleet!Running /\ left # {}
  BY DEF Fleet!Now
<1>2. mode' = mode
  BY DEF Fleet!Advance, Fleet!Raise, Fleet!Leave
<1>3. left' \subseteq left /\ (Fleet!Over)' = Fleet!Over
  BY <1>2, SameLoop
<1>4. Overs
  BY <1>3 DEF Overs
<1>5. mode = "undo" \/ (mode = "run" /\ ~Ahead(p))
  <2> SUFFICES ASSUME mode = "run", Ahead(p) PROVE FALSE
    BY <1>2
  <2>1. Certain(T.before, p, b)
    BY DEF ListsAt, KeepsFirst
  <2>2. phase = p[1] /\ Fleet!Advance(i)
    BY <1>2, <2>1, AdvanceAhead, RaiseAhead
  <2>3. Fleet!Over = "once"
    BY <1>1, <2>1, <2>2, AheadIs, CertainIs DEF Placing
  <2>. QED BY <1>4, <2>3 DEF Overs, UserLoops
<1>. QED BY <1>1, <1>3, <1>4, <1>5 DEF ListsAt

\* Lists are kept before they are written: as a statement succeeds,
LEMMA ListsMove ==
    ASSUME Placing, NoOver, NEW p, NEW q, NEW b, ListsAt(p, q, b), UNCHANGED <<script, origin>>,
           NEW i \in Items, NEW t, Succeeds(t, i)
    PROVE  ListsAt(p, q, b)'
<1>1. /\ mode \in Fleet!Running /\ left # {} /\ Fleet!Do[at] = t
      /\ mode' = mode /\ Fleet!Now(t, i) /\ Fleet!Advance(i) /\ Effects(t, i)
  BY DEF Succeeds, Fleet!Now, Fleet!Advance
<1>2. t # "backupOver"
  BY <1>1, NeverAt DEF NoOver
<1>3. KeepsFirst(T, p, q, "users", b, ListWrites \cup Notes)'
  BY DEF ListsAt, T
<1>4. Certain(T.before, p, b) /\ Certain(T.before, q, "users")
  BY DEF ListsAt, KeepsFirst
<1>5. kept \subseteq kept' /\ Clients0' = Clients0
  BY <1>1, <1>2 DEF Effects, Clients0
<1>6. (user = [u \in Clients |-> user[u]] /\ Unread(user))'
  <2>1. CASE t \notin ListWrites
    <3>1. user' = user
      BY <1>1, <2>1 DEF Effects, ListWrites
    <3>. QED BY <3>1 DEF ListsAt, Unread
  <2>2. CASE t \in ListWrites
    <3>1. i \in Clients => i \in Clients0
      BY <1>1, <2>2, WritesKnown
    <3>2. PICK v : user' = [user EXCEPT ![i] = v]
      BY <1>1, <2>2 DEF Effects, ListWrites
    <3>3. user = [u \in Clients |-> user[u]] /\ Unread(user)
      BY DEF ListsAt
    <3>4. user' = [u \in Clients |-> user'[u]]
      BY <3>2, <3>3
    <3>5. ASSUME NEW u \in Clients, origin.user[u] = None PROVE user'[u] = None
      <4>1. u # i
        BY <3>1, <3>5 DEF Clients0
      <4>2. user'[u] = user[u]
        BY <3>2, <3>3, <4>1
      <4>. QED BY <3>3, <3>5, <4>2 DEF Unread
    <3>. QED BY <3>4, <3>5 DEF Unread
  <2>. QED BY <2>1, <2>2
<1>7. (applied \cap Clients \subseteq Clients0)'
  <2>1. CASE t \notin Notes
    <3>1. applied' = applied
      BY <1>1, <2>1 DEF Effects, Notes
    <3>. QED BY <1>5, <3>1 DEF ListsAt
  <2>2. CASE t \in Notes
    <3>1. i \in Clients => i \in Clients0
      BY <1>1, <2>2, WritesKnown
    <3>2. applied' \subseteq applied \cup {i}
      BY <1>1, <2>2 DEF Effects, Notes
    <3>. QED BY <1>5, <3>1, <3>2 DEF ListsAt
  <2>. QED BY <2>1, <2>2
<1>8. (mode = "undo" \/ (mode = "run" /\ ~Ahead(q)) => Unread(seen))'
  <2> SUFFICES ASSUME mode' = "undo" \/ (mode' = "run" /\ ~Ahead(q)') PROVE Unread(seen)'
    OBVIOUS
  <2>1. CASE t = "users"
    <3>1. seen' = user
      BY <1>1, <2>1 DEF Effects
    <3>. QED BY <3>1 DEF ListsAt, Unread
  <2>2. CASE t # "users"
    <3>1. seen' = seen
      BY <1>1, <2>2 DEF Effects
    <3>2. mode = "undo" \/ (mode = "run" /\ ~Ahead(q))
      BY <1>1, <1>4, <2>2, AdvanceAhead
    <3>3. Unread(seen)
      BY <3>2 DEF ListsAt
    <3>. QED BY <3>1, <3>3 DEF Unread
  <2>. QED BY <2>1, <2>2
<1>9. (mode = "undo" \/ (mode = "run" /\ ~Ahead(p)) =>
          (left # {} /\ Overs => left \cap Clients \subseteq Clients0))'
  BY <1>1, <1>5, LoopGoesOn
<1>10. CASE Clients0 \subseteq kept
  BY <1>3, <1>5, <1>6, <1>7, <1>8, <1>9, <1>10 DEF ListsAt
<1>11. CASE ~(Clients0 \subseteq kept)
  <2>1. /\ user = origin.user /\ mode # "undo"
        /\ mode = "run" => Ahead(p)
        /\ mode = "run" => seen = origin.user \/ Ahead(q)
    BY <1>11 DEF ListsAt
  <2>2. t \notin ListWrites \cup Notes
    BY <1>1, <1>11, WritesKnown
  <2>3. user' = origin'.user /\ mode' # "undo"
    BY <1>1, <2>1, <2>2 DEF Effects, ListWrites
  <2>4. CASE mode # "run"
    BY <1>1, <1>3, <1>6, <1>7, <1>8, <1>9, <2>3, <2>4 DEF ListsAt
  <2>5. CASE mode = "run"
    <3>1. \/ Ahead(p)'
          \/ phase = p[1] /\ at + 1 = p[2] /\ t = b
      BY <1>1, <1>4, <2>1, <2>5, AdvanceAhead
    <3>2. (seen = origin.user)' \/ Ahead(q)'
      <4>1. CASE t = "users"
        BY <1>1, <2>1, <4>1 DEF Effects
      <4>2. CASE t # "users" /\ seen = origin.user
        BY <1>1, <4>2 DEF Effects
      <4>3. CASE t # "users" /\ Ahead(q)
        BY <1>1, <1>4, <4>3, AdvanceAhead
      <4>. QED BY <2>1, <2>5, <4>1, <4>2, <4>3
    <3>3. CASE Ahead(p)'
      BY <1>3, <1>6, <1>7, <1>8, <1>9, <2>3, <3>2, <3>3 DEF ListsAt
    <3>4. CASE phase = p[1] /\ at + 1 = p[2] /\ t = b
      <4>1. ~Ahead(q)
        BY <3>4, ReadBeforeKept DEF ListsAt
      <4>2. seen = origin.user
        BY <2>1, <2>5, <4>1
      <4>3. Fleet!FirstLists \subseteq kept'
        BY <1>1, <3>4 DEF Effects, ListsAt
      <4>4. Clients0' \subseteq kept'
        BY <1>5, <4>2, <4>3 DEF Fleet!FirstLists, Fleet!Known, Clients0
      <4>. QED BY <1>3, <1>6, <1>7, <1>8, <1>9, <4>4 DEF ListsAt
    <3>. QED BY <3>1, <3>3, <3>4
  <2>. QED BY <2>4, <2>5
<1>. QED BY <1>10, <1>11

\* as one throws,
LEMMA ListsRaise ==
    ASSUME Placing, NEW p, NEW q, NEW b, ListsAt(p, q, b), UNCHANGED <<script, origin>>,
           NEW i, NEW t, Throws(t, i)
    PROVE  ListsAt(p, q, b)'
<1>1. /\ Fleet!Now(t, i) /\ Fleet!Raise(i) /\ UNCHANGED <<user, seen, kept, applied>>
  BY DEF Throws, Fleet!Raise
<1>2. KeepsFirst(T, p, q, "users", b, ListWrites \cup Notes)'
  BY DEF ListsAt, T
<1>3. Certain(T.before, p, b) /\ Certain(T.before, q, "users")
  BY DEF ListsAt, KeepsFirst
<1>4. Clients0' = Clients0 /\ (user = [u \in Clients |-> user[u]] /\ Unread(user))'
      /\ (applied \cap Clients \subseteq Clients0)'
  BY <1>1 DEF ListsAt, Unread, Clients0
<1>5. mode' = "run" => mode = "run"
  BY <1>1 DEF Fleet!Raise, Fleet!Advance, Fleet!Leave
<1>6. /\ mode' = "run" /\ Ahead(p) => Ahead(p)'
      /\ mode' = "run" /\ Ahead(q) => Ahead(q)'
  BY <1>1, <1>3, RaiseAhead
<1>7. (mode = "undo" \/ (mode = "run" /\ ~Ahead(q)) => Unread(seen))'
  <2> SUFFICES ASSUME mode' = "undo" \/ (mode' = "run" /\ ~Ahead(q)') PROVE Unread(seen)'
    OBVIOUS
  <2>1. mode = "undo" \/ (mode = "run" /\ ~Ahead(q))
    BY <1>1, <1>3, <1>5, <1>6, UndoesLater
  <2>2. Unread(seen)
    BY <2>1 DEF ListsAt
  <2>. QED BY <1>1, <2>2 DEF Unread
<1>8. (mode = "undo" \/ (mode = "run" /\ ~Ahead(p)) =>
          (left # {} /\ Overs => left \cap Clients \subseteq Clients0))'
  BY <1>1, <1>4, LoopGoesOn
<1>9. CASE Clients0 \subseteq kept
  BY <1>1, <1>2, <1>4, <1>7, <1>8, <1>9 DEF ListsAt
<1>10. CASE ~(Clients0 \subseteq kept)
  <2>1. /\ user = origin.user /\ mode # "undo"
        /\ mode = "run" => Ahead(p)
        /\ mode = "run" => seen = origin.user \/ Ahead(q)
    BY <1>10 DEF ListsAt
  <2>2. mode' # "undo"
    BY <1>1, <1>3, <2>1, UndoesLater
  <2>3. mode' = "run" => Ahead(p)' /\ (seen' = origin'.user \/ Ahead(q)')
    BY <1>1, <1>5, <1>6, <2>1
  <2>4. user' = origin'.user
    BY <1>1, <2>1
  <2>. QED BY <1>2, <1>4, <1>7, <1>8, <2>2, <2>3, <2>4 DEF ListsAt
<1>. QED BY <1>9, <1>10

\* as a loop is entered,
LEMMA ListsEnter ==
    ASSUME Placing, NEW p, NEW q, NEW b, ListsAt(p, q, b), Fleet!Enter
    PROVE  ListsAt(p, q, b)'
<1>1. UNCHANGED <<script, origin, user, seen, kept, applied>> /\ mode \in Fleet!Running
  BY DEF Fleet!Enter, Fleet!world, Fleet!reads, Fleet!notes, Fleet!constant
<1>2. KeepsFirst(T, p, q, "users", b, ListWrites \cup Notes)'
  BY <1>1 DEF ListsAt, T
<1>3. Certain(T.before, p, b) /\ Certain(T.before, q, "users")
  BY DEF ListsAt, KeepsFirst
<1>4. (Ahead(p) => Ahead(p)') /\ (Ahead(q) => Ahead(q)')
  BY <1>3, EnterAhead
<1>5. Clients0' = Clients0 /\ (user = [u \in Clients |-> user[u]] /\ Unread(user))'
      /\ (applied \cap Clients \subseteq Clients0)'
  BY <1>1 DEF ListsAt, Unread, Clients0
<1>6. CASE phase = Len(Fleet!Plan)
  <2>1. mode' \in {"ok", "undone", "dry"}
    BY <1>1, <1>6 DEF Fleet!Enter, Fleet!Leave, Fleet!Running
  <2>. QED BY <1>1, <1>2, <1>5, <2>1 DEF ListsAt
<1>7. CASE phase # Len(Fleet!Plan)
  <2>1. /\ mode' = mode /\ phase' = phase + 1
        /\ left' = Fleet!Items(Head(Fleet!Plan[phase + 1]))
    BY <1>7 DEF Fleet!Enter
  <2>2. (Fleet!Over)' = Head(Fleet!Plan[phase + 1])
    BY <1>1, <2>1 DEF Fleet!Over, Fleet!Plan, Fleet!S
  <2>3. (mode = "undo" \/ (mode = "run" /\ ~Ahead(q)) => Unread(seen))'
    <3> SUFFICES ASSUME mode' = "undo" \/ (mode' = "run" /\ ~Ahead(q)') PROVE Unread(seen)'
      OBVIOUS
    <3>1. mode = "undo" \/ (mode = "run" /\ ~Ahead(q))
      BY <1>4, <2>1
    <3>2. Unread(seen)
      BY <3>1 DEF ListsAt
    <3>. QED BY <1>1, <3>2 DEF Unread
  <2>4. (mode = "undo" \/ (mode = "run" /\ ~Ahead(p)) =>
            (left # {} /\ Overs => left \cap Clients \subseteq Clients0))'
    <3> SUFFICES ASSUME mode' = "undo" \/ (mode' = "run" /\ ~Ahead(p)'), Overs'
                 PROVE  left' \cap Clients \subseteq Clients0
      BY <1>5
    <3>1. mode = "undo" \/ (mode = "run" /\ ~Ahead(p))
      BY <1>4, <2>1
    <3>2. mode = "undo" \/ (mode = "run" /\ ~Ahead(q))
      BY <3>1, ReadBeforeKept DEF ListsAt
    <3>3. Unread(seen) /\ applied \cap Clients \subseteq Clients0
      BY <3>2 DEF ListsAt
    <3>4. Head(Fleet!Plan[phase + 1]) \in UserLoops
      BY <2>2 DEF Overs
    <3>. QED BY <2>1, <3>3, <3>4, UserItems DEF Placing
  <2>. QED BY <1>1, <1>2, <1>4, <1>5, <2>1, <2>3, <2>4 DEF ListsAt
<1>. QED BY <1>6, <1>7

\* Any step of a script with a backup of lists.
LEMMA ListsStep ==
    ASSUME Placing, NoOver, NEW p, NEW q, NEW b, ListsAt(p, q, b), Fleet!Next
    PROVE  ListsAt(p, q, b)'
<1>1. CASE Fleet!Enter
  BY <1>1, ListsEnter
<1>2. CASE Fleet!Kill
  <2>1. UNCHANGED <<script, origin, user, seen, kept, applied>> /\ mode' = "killed"
    BY <1>2 DEF Fleet!Kill, Fleet!Leave, Fleet!world, Fleet!reads, Fleet!notes, Fleet!constant
  <2>2. KeepsFirst(T, p, q, "users", b, ListWrites \cup Notes)'
    BY <2>1 DEF ListsAt, T
  <2>. QED BY <2>1, <2>2 DEF ListsAt, Unread, Clients0
<1>3. CASE Fleet!Again
  <2>1. UNCHANGED <<script, origin, user, kept>> /\ mode' = "run" /\ left' = {} /\ applied' = {}
    BY <1>3 DEF Fleet!Again, Fleet!Leave, Fleet!world, Fleet!constant
  <2>2. KeepsFirst(T, p, q, "users", b, ListWrites \cup Notes)'
    BY <2>1 DEF ListsAt, T
  <2>3. Certain(T.before, p, b) /\ Certain(T.before, q, "users")
    BY DEF ListsAt, KeepsFirst
  <2>4. Ahead(p)' /\ Ahead(q)'
    BY <1>3, <2>1, <2>3, AgainAhead
  <2>. QED BY <2>1, <2>2, <2>4 DEF ListsAt, Unread, Clients0
<1>4. ASSUME NEW i \in Items, Fleet!Statement(i)
      PROVE  ListsAt(p, q, b)'
  <2>1. UNCHANGED <<script, origin>>
    BY <1>4, StepKinds
  <2>2. PICK t : Succeeds(t, i) \/ Throws(t, i) \/ GoesBack(t, i)
    BY <1>4, StepKinds
  <2>3. CASE Succeeds(t, i)
    BY <2>1, <2>3, ListsMove
  <2>4. CASE Throws(t, i)
    BY <2>1, <2>4, ListsRaise
  <2>5. CASE GoesBack(t, i)
    <3>1. UNCHANGED <<user, seen, kept, applied>> /\ mode' = "back"
      BY <2>5 DEF GoesBack, Fleet!Leave
    <3>2. KeepsFirst(T, p, q, "users", b, ListWrites \cup Notes)'
      BY <2>1 DEF ListsAt, T
    <3>. QED BY <2>1, <3>1, <3>2 DEF ListsAt, Unread, Clients0
  <2>. QED BY <2>2, <2>3, <2>4, <2>5
<1>. QED BY <1>1, <1>2, <1>3, <1>4 DEF Fleet!Next, Fleet!Servers, Servers, Items

\* Every step leaves the script at a place it has.
LEMMA PlacesStep ==
    ASSUME Placing, Fleet!Next
    PROVE  Placing' /\ UNCHANGED <<script, origin>>
<1>1. CASE Fleet!Enter
  BY <1>1, EnteringPlaces DEF Fleet!Enter, Fleet!constant
<1>2. CASE Fleet!Kill
  <2>1. UNCHANGED <<script, origin>> /\ Fleet!Leave("killed")
    BY <1>2 DEF Fleet!Kill, Fleet!constant
  <2>. QED BY <2>1, LeavingPlaces
<1>3. CASE Fleet!Again
  <2>1. UNCHANGED <<script, origin>> /\ Fleet!Leave("run")
    BY <1>3 DEF Fleet!Again, Fleet!constant
  <2>. QED BY <2>1, LeavingPlaces
<1>4. ASSUME NEW i \in Items, Fleet!Statement(i)
      PROVE  Placing' /\ UNCHANGED <<script, origin>>
  <2>1. UNCHANGED <<script, origin>>
    BY <1>4, StepKinds
  <2>2. PICK t : Succeeds(t, i) \/ Throws(t, i) \/ GoesBack(t, i)
    BY <1>4, StepKinds
  <2>3. CASE Succeeds(t, i)
    BY <2>1, <2>3, AdvancingPlaces DEF Succeeds
  <2>4. CASE Throws(t, i)
    BY <2>1, <2>4, RaisingPlaces DEF Throws
  <2>5. CASE GoesBack(t, i)
    BY <2>1, <2>5, LeavingPlaces DEF GoesBack
  <2>. QED BY <2>1, <2>2, <2>3, <2>4, <2>5
<1>. QED BY <1>1, <1>2, <1>3, <1>4 DEF Fleet!Next, Fleet!Servers, Servers, Items

-----------------------------------------------------------------------------
(* Backups *)

\* A script with a backup writes no lists, or keeps its place in view, or has
\* kept all it read; and so for servers.
ListsKept ==
    \/ Never(T, ListWrites) /\ user = origin.user
    \/ NoOver /\ \E p, q, b : ListsAt(p, q, b)
RowsKept ==
    \/ Never(T, RowWrites) /\ row = origin.row
    \/ NoOver /\ \E p, q, b : RowsAt(p, q, b)

\* Where a script is, what it keeps, and what it has not kept yet.
BackupInv ==
    /\ Placing
    /\ Does(Course(T), Backups) =>
          /\ script \notin Fleet!ListsUnkept => ListsKept
          /\ script \notin Fleet!RowsUnkept => RowsKept

\* A statement of Has is one of the course.
LEMMA HasDoes ==
    ASSUME NEW s, Fleet!Has(s)
    PROVE  Does(Course(T), {s})
<1> DEFINE loops == Course(T)
<1>1. PICK k \in DOMAIN loops : \E j \in 2..Len(loops[k]) : loops[k][j] = s
  BY DEF Fleet!Has, Fleet!S, T, Course
<1>2. PICK j \in 2..Len(loops[k]) : loops[k][j] = s
  BY <1>1
<1>3. <<k, j>> \in Places(loops)
  BY DEF Places
<1>. QED BY <1>2, <1>3 DEF Does

\* At first every backup is ahead and nothing is written.
LEMMA BackupInit ==
    ASSUME Fleet!Init
    PROVE  BackupInv
<1>1. /\ script \in DOMAIN Scripts /\ mode = "run" /\ phase = 0 /\ left = {} /\ at = 1
      /\ applied = {} /\ origin = [user |-> user, row |-> row]
  BY DEF Fleet!Init
<1>2. PICK w \in Worlds : user = w.user
  BY DEF Fleet!Init
<1>3. user \in [Clients -> Fleet!Doc \cup {None}]
  BY <1>2, WorldsAssumption
<1>4. user = [u \in Clients |-> user[u]]
  BY <1>3
<1>5. Placing
  <2>1. Len(Fleet!Plan) \in Nat
    <3>1. Fleet!Plan \in Seq(Seq(STRING))
      BY <1>1, RunPlan
    <3>. QED BY <3>1
  <2>. QED BY <1>1, <2>1 DEF Placing, Fleet!Running
<1>6. ASSUME NEW p, NEW s, Certain(T.before, p, s) PROVE Ahead(p)
  <2>1. p[1] \in 1..Len(T.before) /\ p[1] \in Nat
    BY <1>1, <1>6, CertainIs
  <2>. QED BY <1>1, <2>1 DEF Ahead
<1>7. origin.user = user /\ origin.row = row
  BY <1>1
<1>8. ASSUME script \notin Fleet!ListsUnkept, Does(Course(T), Backups) PROVE ListsKept
  <2>1. /\ NoOver
        /\ \/ Never(T, ListWrites)
           \/ \E b \in ListBackups, p, q \in Places(T.before) :
                 KeepsFirst(T, p, q, "users", b, ListWrites \cup Notes)
    BY <1>1, <1>8, BackupsComeFirst DEF T, NoOver
  <2>2. CASE Never(T, ListWrites)
    BY <1>7, <2>2 DEF ListsKept
  <2>3. ASSUME NEW b \in ListBackups, NEW p, NEW q,
               KeepsFirst(T, p, q, "users", b, ListWrites \cup Notes)
        PROVE  ListsAt(p, q, b)
    <3>1. Ahead(p) /\ Ahead(q)
      BY <1>6, <2>3 DEF KeepsFirst
    <3>. QED BY <1>1, <1>4, <1>7, <2>3, <3>1 DEF ListsAt, Unread
  <2>. QED BY <2>1, <2>2, <2>3 DEF ListsKept
<1>9. ASSUME script \notin Fleet!RowsUnkept, Does(Course(T), Backups) PROVE RowsKept
  <2>1. /\ NoOver
        /\ \/ Never(T, RowWrites)
           \/ \E b \in RowBackups, p, q \in Places(T.before) :
                 KeepsFirst(T, p, q, "servers", b, RowWrites)
    BY <1>1, <1>9, BackupsComeFirst DEF T, NoOver
  <2>2. CASE Never(T, RowWrites)
    BY <1>7, <2>2 DEF RowsKept
  <2>3. ASSUME NEW b \in RowBackups, NEW p, NEW q, KeepsFirst(T, p, q, "servers", b, RowWrites)
        PROVE  RowsAt(p, q, b)
    <3>1. Ahead(p) /\ Ahead(q)
      BY <1>6, <2>3 DEF KeepsFirst
    <3>. QED BY <1>1, <1>7, <2>3, <3>1 DEF RowsAt
  <2>. QED BY <2>1, <2>2, <2>3 DEF RowsKept
<1>. QED BY <1>5, <1>8, <1>9 DEF BackupInv

\* A script without statements that write lists, or servers, leaves them be.
LEMMA NeverWrites ==
    ASSUME Placing, Fleet!Next
    PROVE  /\ Never(T, ListWrites) => user' = user
           /\ Never(T, RowWrites) => row' = row
<1>1. CASE Fleet!Enter \/ Fleet!Kill \/ Fleet!Again
  BY <1>1 DEF Fleet!Enter, Fleet!Kill, Fleet!Again, Fleet!world
<1>2. ASSUME NEW i \in Items, Fleet!Statement(i)
      PROVE  /\ Never(T, ListWrites) => user' = user
             /\ Never(T, RowWrites) => row' = row
  <2>1. PICK t : Succeeds(t, i) \/ Throws(t, i) \/ GoesBack(t, i)
    BY <1>2, StepKinds
  <2>2. CASE Succeeds(t, i)
    <3>1. Fleet!Now(t, i) /\ Effects(t, i)
      BY <2>2 DEF Succeeds
    <3>2. /\ Never(T, ListWrites) => t \notin ListWrites
          /\ Never(T, RowWrites) => t \notin RowWrites
      BY <3>1, NeverAt
    <3>. QED BY <3>1, <3>2, SameWrites DEF Effects, ListWrites
  <2>3. CASE Throws(t, i) \/ GoesBack(t, i)
    BY <2>3 DEF Throws, GoesBack
  <2>. QED BY <2>1, <2>2, <2>3
<1>. QED BY <1>1, <1>2 DEF Fleet!Next, Fleet!Servers, Servers, Items

\* Every step keeps it so.
LEMMA BackupNext ==
    ASSUME BackupInv, Fleet!Next
    PROVE  BackupInv'
<1>1. Placing /\ script \in DOMAIN Scripts
  BY DEF BackupInv, Placing
<1>2. Placing' /\ script' = script /\ T' = T
  BY <1>1, PlacesStep DEF T
<1>3. NoOver' = NoOver /\ origin' = origin
  BY <1>1, <1>2, PlacesStep DEF NoOver
<1>4. ASSUME ListsKept PROVE ListsKept'
  <2>1. CASE Never(T, ListWrites) /\ user = origin.user
    BY <1>1, <1>2, <1>3, <2>1, NeverWrites DEF ListsKept
  <2>2. CASE NoOver /\ \E p, q, b : ListsAt(p, q, b)
    <3>1. PICK p, q, b : ListsAt(p, q, b)
      BY <2>2
    <3>2. ListsAt(p, q, b)'
      BY <1>1, <2>2, <3>1, ListsStep
    <3>. QED BY <1>3, <2>2, <3>2 DEF ListsKept
  <2>. QED BY <1>4, <2>1, <2>2 DEF ListsKept
<1>5. ASSUME RowsKept PROVE RowsKept'
  <2>1. CASE Never(T, RowWrites) /\ row = origin.row
    BY <1>1, <1>2, <1>3, <2>1, NeverWrites DEF RowsKept
  <2>2. CASE NoOver /\ \E p, q, b : RowsAt(p, q, b)
    <3>1. PICK p, q, b : RowsAt(p, q, b)
      BY <2>2
    <3>2. RowsAt(p, q, b)'
      BY <1>1, <2>2, <3>1, RowsStep
    <3>. QED BY <1>3, <2>2, <3>2 DEF RowsKept
  <2>. QED BY <1>5, <2>1, <2>2 DEF RowsKept
<1>. QED BY <1>2, <1>4, <1>5 DEF BackupInv

\* Whoever was written has been kept.
LEMMA BackupSafe ==
    ASSUME BackupInv
    PROVE  Fleet!BackupsHoldChanges
<1> SUFFICES ASSUME \E s \in {"backup", "backupRows", "backupAll", "backupOver"} : Fleet!Has(s)
             PROVE  /\ script \notin Fleet!ListsUnkept =>
                          \A u \in Clients : user[u] # origin.user[u] => u \in kept
                    /\ script \notin Fleet!RowsUnkept =>
                          \A s \in Servers : row[s] # origin.row[s] => s \in kept
  BY DEF Fleet!BackupsHoldChanges, Fleet!Servers, Servers
<1>1. Does(Course(T), Backups)
  BY HasDoes DEF Does, Backups
<1>2. ASSUME script \notin Fleet!ListsUnkept, NEW u \in Clients, user[u] # origin.user[u]
      PROVE  u \in kept
  <2>1. PICK p, q, b : ListsAt(p, q, b)
    BY <1>1, <1>2 DEF BackupInv, ListsKept
  <2>. QED BY <1>2, <2>1 DEF ListsAt, Unread, Clients0
<1>3. ASSUME script \notin Fleet!RowsUnkept, NEW s \in Servers, row[s] # origin.row[s]
      PROVE  s \in kept
  <2>1. PICK p, q, b : RowsAt(p, q, b)
    BY <1>1, <1>3 DEF BackupInv, RowsKept
  <2>. QED BY <1>3, <2>1 DEF RowsAt
<1>. QED BY <1>2, <1>3

\* What a script with a backup has changed, of clients and of servers, can be
\* put back from its backup files, however often it throws, is killed and is
\* run again: whatever lists and servers there were, and however many clients.
\* (ListsUnkept and RowsUnkept of Maintenance are the scripts excepted.)
THEOREM BackupsSuffice == MCSpec => []BackupsHoldChanges
<1>1. MCInit => BackupInv
  BY BackupInit DEF MCInit
<1>2. BackupInv /\ [MCNext]_<<part, vars, fleetVars>> => BackupInv'
  <2> SUFFICES ASSUME BackupInv, [MCNext]_<<part, vars, fleetVars>> PROVE BackupInv'
    OBVIOUS
  <2>1. CASE Fleet!Next
    BY <2>1, BackupNext
  <2>2. CASE UNCHANGED fleetVars
    <3>1. UNCHANGED <<script, mode, phase, left, at, user, row, seen, prev, applied, kept, origin>>
      BY <2>2 DEF fleetVars
    <3>2. Placing'
      BY <3>1 DEF BackupInv, Placing, Fleet!Plan, Fleet!S
    <3>3. T' = T /\ script' = script /\ Clients0' = Clients0 /\ Overs' = Overs
      BY <3>1 DEF T, Clients0, Overs, Fleet!Over, Fleet!Plan, Fleet!S
    <3>4. ASSUME NEW p, NEW q, NEW b PROVE (ListsAt(p, q, b) => ListsAt(p, q, b)') /\ (RowsAt(p, q, b) => RowsAt(p, q, b)')
      BY <3>1, <3>3 DEF ListsAt, RowsAt, Ahead, Unread
    <3>5. (ListsKept => ListsKept') /\ (RowsKept => RowsKept')
      BY <3>1, <3>3, <3>4 DEF ListsKept, RowsKept, NoOver
    <3>. QED BY <3>2, <3>3, <3>5 DEF BackupInv
  <2>. QED BY <2>1, <2>2 DEF MCNext, Moves
<1>3. BackupInv => BackupsHoldChanges
  BY BackupSafe DEF BackupsHoldChanges
<1>. QED BY <1>1, <1>2, <1>3, PTL DEF MCSpec

-----------------------------------------------------------------------------
(* What loops go through *)

RangeOf(over) ==
    CASE over \in UserLoops \cup {"relisted"} -> Clients
      [] over \in {"new", "newOn", "savedAll"} -> News
      [] over = "old" -> Olds
      [] over = "rest" -> Servers \ News
      [] over = "saved" -> Servers
      [] over = "once" -> {None}

\* Functions, or not read yet; items of the loop; the item begun.
Shape ==
    /\ user = [u \in Clients |-> user[u]] /\ row = [s \in Servers |-> row[s]]
    /\ seen = None \/ seen = [u \in Clients |-> seen[u]]
    /\ prev = None \/ prev = [s \in Servers |-> prev[s]]
    /\ applied \subseteq Clients /\ saved \subseteq Servers
    /\ at > 1 => item \in left
    /\ at = 1 => item = None
    /\ mode \in Fleet!Running /\ left # {} => left \subseteq RangeOf(Fleet!Over)

\* What the table says of the loops of a script that runs.
LEMMA LoopsAre ==
    ASSUME script \in DOMAIN Scripts, mode \in Fleet!Running
    PROVE  /\ \A k \in 1..Len(Fleet!Plan) :
                /\ Fleet!Plan[k][1] \in AllLoops
                /\ LoopDoes(Fleet!Plan[k], ListWrites \cup Notes) => Fleet!Plan[k][1] \in UserLoops
                /\ LoopDoes(Fleet!Plan[k], RowWrites) =>
                      Fleet!Plan[k][1] \in RowLoops \cup {"saved", "savedAll"}
                /\ mode = "run" /\ LoopDoes(Fleet!Plan[k], RowWrites) => Fleet!Plan[k][1] \in RowLoops
           /\ mode # "run" =>
                ~Does(Fleet!Plan, {"users", "servers", "dry", "dryOrFailing", "list"} \cup Notes)
           /\ mode = "back" => ~Does(Fleet!Plan, {"listBack"})
           /\ mode = "run" => Fleet!Plan = Course(T)
           /\ mode = "undo" => Fleet!Plan = T.undo
           /\ mode = "back" => Fleet!Plan = T.back
<1>1. IsScript(T)
  BY LoopsAssumption DEF T
<1>2. /\ mode = "run" => Fleet!Plan = Course(T)
      /\ mode = "undo" => Fleet!Plan = T.undo
      /\ mode = "back" => Fleet!Plan = T.back
  BY DEF Fleet!Plan, Fleet!S, T, Course
<1>3. Fleet!Plan \in {Course(T), T.undo, T.back} /\ mode \in {"run", "undo", "back"}
  BY <1>2 DEF Fleet!Running
<1>4. DOMAIN Fleet!Plan = 1..Len(Fleet!Plan)
  <2>1. Fleet!Plan \in Seq(Seq(STRING))
    BY PlanHas
  <2>. QED BY <2>1
<1>5. \A loops \in {Course(T), T.undo, T.back} : \A k \in DOMAIN loops :
          /\ loops[k][1] \in AllLoops
          /\ LoopDoes(loops[k], ListWrites \cup Notes) => loops[k][1] \in UserLoops
          /\ LoopDoes(loops[k], RowWrites) => loops[k][1] \in RowLoops \cup {"saved", "savedAll"}
  BY <1>1 DEF IsScript
<1>6. \A k \in DOMAIN Course(T) :
          LoopDoes(Course(T)[k], RowWrites) => Course(T)[k][1] \in RowLoops
  BY <1>1 DEF IsScript
<1>7. /\ \A loops \in {T.undo, T.back} :
             ~Does(loops, {"users", "servers", "dry", "dryOrFailing", "list"} \cup Notes)
      /\ ~Does(T.back, {"listBack"})
  BY <1>1 DEF IsScript
<1>8. \A k \in 1..Len(Fleet!Plan) :
         /\ Fleet!Plan[k][1] \in AllLoops
         /\ LoopDoes(Fleet!Plan[k], ListWrites \cup Notes) => Fleet!Plan[k][1] \in UserLoops
         /\ LoopDoes(Fleet!Plan[k], RowWrites) =>
               Fleet!Plan[k][1] \in RowLoops \cup {"saved", "savedAll"}
  BY <1>3, <1>4, <1>5
<1>9. \A k \in 1..Len(Fleet!Plan) :
         mode = "run" /\ LoopDoes(Fleet!Plan[k], RowWrites) => Fleet!Plan[k][1] \in RowLoops
  BY <1>2, <1>4, <1>6
<1>. QED BY <1>2, <1>3, <1>7, <1>8, <1>9

\* The statement at which a script is, among those of its loop.
LEMMA NowDoes ==
    ASSUME Placing, NEW t, NEW i, Fleet!Now(t, i), NEW ss, t \in ss
    PROVE  /\ mode \in Fleet!Running /\ left # {} /\ i \in left /\ item \in {None, i}
           /\ Fleet!Do[at] = t
           /\ phase \in 1..Len(Fleet!Plan)
           /\ LoopDoes(Fleet!Plan[phase], ss) /\ Does(Fleet!Plan, ss)
           /\ Fleet!Over = Fleet!Plan[phase][1]
<1>1. mode \in Fleet!Running /\ left # {} /\ i \in left /\ item \in {None, i} /\ Fleet!Do[at] = t
  BY DEF Fleet!Now
<1>2. LoopDoes(Fleet!Plan[phase], {t})
  BY <1>1, LoopNow
<1>3. LoopDoes(Fleet!Plan[phase], ss)
  BY <1>2 DEF LoopDoes
<1>4. /\ <<phase, at + 1>> \in Places(Fleet!Plan) /\ Fleet!Do[at] = Fleet!Plan[phase][at + 1]
      /\ phase \in 1..Len(Fleet!Plan) /\ Fleet!Over = Fleet!Plan[phase][1]
  BY <1>1, Statements
<1>5. Does(Fleet!Plan, ss)
  BY <1>1, <1>4 DEF Does
<1>. QED BY <1>1, <1>3, <1>4, <1>5

\* A loop goes through items of its kind.
LEMMA ItemsIn ==
    ASSUME script \in DOMAIN Scripts, Shape, NEW over \in AllLoops
    PROVE  Fleet!Items(over) \subseteq RangeOf(over)
<1>1. T.who \in {"all", "vip", "affected", "holders", "empty"}
  BY LoopsAssumption DEF T, IsScript
<1>2. ASSUME NEW us PROVE Fleet!Selected(us) \subseteq Clients /\ Fleet!Known(us) \subseteq Clients
  BY <1>1 DEF Fleet!Selected, Fleet!Known, Fleet!S, T
<1>3. CASE over \in UserLoops \cup {"relisted"}
  <2>1. Fleet!Items(over) \subseteq Clients
    BY <1>2, <1>3 DEF Fleet!Items, UserLoops, Shape
  <2>2. RangeOf(over) = Clients
    BY <1>3 DEF RangeOf, UserLoops
  <2>. QED BY <2>1, <2>2
<1>4. CASE over \in {"new", "newOn", "savedAll"}
  <2>1. Fleet!Items(over) \subseteq News
    BY <1>4 DEF Fleet!Items
  <2>2. RangeOf(over) = News
    BY <1>4 DEF RangeOf, UserLoops
  <2>. QED BY <2>1, <2>2
<1>5. CASE over = "old"
  BY <1>5 DEF Fleet!Items, RangeOf, UserLoops
<1>6. CASE over = "rest"
  BY <1>6 DEF Fleet!Items, RangeOf, UserLoops, Fleet!Servers, Servers
<1>7. CASE over = "saved"
  BY <1>7 DEF Fleet!Items, RangeOf, UserLoops, Shape
<1>8. CASE over = "once"
  BY <1>8 DEF Fleet!Items, RangeOf, UserLoops
<1>. QED BY <1>3, <1>4, <1>5, <1>6, <1>7, <1>8 DEF AllLoops, RowLoops

\* Kinds of loops.
LEMMA RangesAre ==
    /\ \A over \in UserLoops : RangeOf(over) = Clients
    /\ \A over \in RowLoops \cup {"saved", "savedAll"} : RangeOf(over) \subseteq Servers
<1>1. ASSUME NEW over \in UserLoops PROVE RangeOf(over) = Clients
  BY DEF RangeOf, UserLoops
<1>2. ASSUME NEW over \in RowLoops \cup {"saved", "savedAll"} PROVE RangeOf(over) \subseteq Servers
  BY DEF RangeOf, RowLoops, UserLoops, Servers
<1>. QED BY <1>1, <1>2

\* What the control has to do with Shape.
Going ==
    /\ at > 1 => item \in left
    /\ at = 1 => item = None
    /\ mode \in Fleet!Running /\ left # {} => left \subseteq RangeOf(Fleet!Over)

\* A script that goes on has an item of the loop begun, or none.
LEMMA GoingOnShape ==
    ASSUME Placing, Shape, UNCHANGED script, NEW t, NEW i, Fleet!Now(t, i),
           Fleet!Advance(i) \/ Fleet!Raise(i)
    PROVE  Going'
<1>1. mode \in Fleet!Running /\ i \in left /\ left # {} /\ at \in Nat /\ at >= 1
  BY DEF Fleet!Now, Placing
<1>2. CASE left' = left \ {i} /\ item' = None /\ at' = 1 /\ mode' = mode /\ phase' = phase
  <2>1. (Fleet!Over)' = Fleet!Over
    BY <1>2 DEF Fleet!Over, Fleet!Plan, Fleet!S
  <2>. QED BY <1>1, <1>2, <2>1 DEF Shape, Going
<1>3. CASE left' = left /\ item' = i /\ at' = at + 1 /\ mode' = mode /\ phase' = phase
  <2>1. (Fleet!Over)' = Fleet!Over
    BY <1>3 DEF Fleet!Over, Fleet!Plan, Fleet!S
  <2>2. at' # 1 /\ item' \in left'
    BY <1>1, <1>3
  <2>. QED BY <1>1, <1>3, <2>1, <2>2 DEF Shape, Going
<1>4. CASE left' = {} /\ item' = None /\ at' = 1
  BY <1>4 DEF Going
<1>. QED BY <1>2, <1>3, <1>4 DEF Fleet!Advance, Fleet!Raise, Fleet!Leave

\* A statement keeps the shapes of what there is,
LEMMA ShapeMove ==
    ASSUME Placing, Shape, UNCHANGED script, NEW t, NEW i, Succeeds(t, i)
    PROVE  Shape'
<1>1. Fleet!Now(t, i) /\ Fleet!Advance(i) /\ Effects(t, i) /\ script \in DOMAIN Scripts
  BY DEF Succeeds, Placing
<1>2. Going'
  BY <1>1, GoingOnShape
<1>3. \E v : user' = user \/ user' = [user EXCEPT ![i] = v]
  BY <1>1 DEF Effects
<1>4. \E v : row' = row \/ row' = [row EXCEPT ![i] = v]
  BY <1>1 DEF Effects
<1>5. (user = [u \in Clients |-> user[u]])'
  BY <1>3 DEF Shape
<1>6. (row = [s \in Servers |-> row[s]])'
  BY <1>4 DEF Shape
<1>7. (seen = None \/ seen = [u \in Clients |-> seen[u]])'
  BY <1>1 DEF Effects, Shape
<1>8. (prev = None \/ prev = [s \in Servers |-> prev[s]])'
  BY <1>1 DEF Effects, Shape
<1>9. applied' \subseteq Clients
  <2>1. CASE t \notin Notes
    <3>1. applied' = applied
      BY <1>1, <2>1 DEF Effects, Notes
    <3>. QED BY <3>1 DEF Shape
  <2>2. CASE t \in Notes
    <3>1. applied' \subseteq applied \cup {i}
      BY <1>1, <2>2 DEF Effects, Notes
    <3>2. /\ i \in left /\ left # {} /\ mode \in Fleet!Running /\ phase \in 1..Len(Fleet!Plan)
          /\ LoopDoes(Fleet!Plan[phase], ListWrites \cup Notes) /\ Fleet!Over = Fleet!Plan[phase][1]
      BY <1>1, <2>2, NowDoes
    <3>3. Fleet!Over \in UserLoops
      BY <1>1, <3>2, LoopsAre
    <3>4. i \in Clients
      BY <3>2, <3>3, RangesAre DEF Shape
    <3>. QED BY <3>1, <3>4 DEF Shape
  <2>. QED BY <2>1, <2>2
<1>10. saved' \subseteq Servers
  <2>1. CASE t \notin RowWrites
    <3>1. saved' = saved
      BY <1>1, <2>1, SameWrites DEF Effects
    <3>. QED BY <3>1 DEF Shape
  <2>2. CASE t \in RowWrites
    <3>1. saved' \subseteq saved \cup {i}
      BY <1>1, <2>2 DEF Effects
    <3>2. /\ i \in left /\ left # {} /\ mode \in Fleet!Running /\ phase \in 1..Len(Fleet!Plan)
          /\ LoopDoes(Fleet!Plan[phase], RowWrites) /\ Fleet!Over = Fleet!Plan[phase][1]
      BY <1>1, <2>2, NowDoes
    <3>3. Fleet!Over \in RowLoops \cup {"saved", "savedAll"}
      BY <1>1, <3>2, LoopsAre
    <3>4. i \in Servers
      BY <3>2, <3>3, RangesAre DEF Shape
    <3>. QED BY <3>1, <3>4 DEF Shape
  <2>. QED BY <2>1, <2>2
<1>. QED BY <1>2, <1>5, <1>6, <1>7, <1>8, <1>9, <1>10 DEF Shape, Going

\* entering a loop does,
LEMMA ShapeEnter ==
    ASSUME Placing, Shape, Fleet!Enter
    PROVE  Shape'
<1>1. /\ UNCHANGED <<script, user, row, seen, prev, applied, saved>>
      /\ mode \in Fleet!Running /\ left = {} /\ at = 1 /\ script \in DOMAIN Scripts
  BY DEF Fleet!Enter, Fleet!world, Fleet!reads, Fleet!notes, Fleet!constant, Placing
<1>2. CASE phase = Len(Fleet!Plan)
  <2>1. left' = {} /\ item' = None /\ at' = 1
    BY <1>2 DEF Fleet!Enter, Fleet!Leave
  <2>. QED BY <1>1, <2>1 DEF Shape
<1>3. CASE phase # Len(Fleet!Plan)
  <2>1. /\ mode' = mode /\ phase' = phase + 1 /\ item' = item /\ at' = at
        /\ left' = Fleet!Items(Head(Fleet!Plan[phase + 1]))
    BY <1>3 DEF Fleet!Enter
  <2>2. (Fleet!Over)' = Head(Fleet!Plan[phase + 1])
    BY <1>1, <2>1 DEF Fleet!Over, Fleet!Plan, Fleet!S
  <2>3. /\ Fleet!Plan \in Seq(Seq(STRING))
        /\ \A k \in 1..Len(Fleet!Plan) : Len(Fleet!Plan[k]) >= 2
        /\ \A k \in 1..Len(Fleet!Plan) : Fleet!Plan[k][1] \in AllLoops
    BY <1>1, PlanHas, LoopsAre
  <2>4. phase + 1 \in 1..Len(Fleet!Plan)
    BY <1>1, <1>3, <2>3 DEF Placing
  <2>5. Fleet!Plan[phase + 1] \in Seq(STRING) /\ Len(Fleet!Plan[phase + 1]) >= 2
    BY <2>3, <2>4
  <2>6. Head(Fleet!Plan[phase + 1]) = Fleet!Plan[phase + 1][1]
    BY <2>5
  <2>7. left' \subseteq RangeOf((Fleet!Over)')
    BY <1>1, <2>1, <2>2, <2>3, <2>4, <2>6, ItemsIn
  <2>. QED BY <1>1, <2>1, <2>7 DEF Shape
<1>. QED BY <1>2, <1>3

\* and so does every step.
LEMMA ShapeStep ==
    ASSUME Placing, Shape, Fleet!Next
    PROVE  Shape'
<1>1. CASE Fleet!Enter
  BY <1>1, ShapeEnter
<1>2. CASE Fleet!Kill
  <2>1. UNCHANGED <<user, row, seen, prev, applied, saved>> /\ left' = {} /\ item' = None /\ at' = 1
    BY <1>2 DEF Fleet!Kill, Fleet!Leave, Fleet!world, Fleet!reads, Fleet!notes
  <2>. QED BY <2>1 DEF Shape
<1>3. CASE Fleet!Again
  <2>1. /\ UNCHANGED <<user, row>> /\ left' = {} /\ item' = None /\ at' = 1
        /\ seen' = None /\ prev' = None /\ applied' = {} /\ saved' = {}
    BY <1>3 DEF Fleet!Again, Fleet!Leave, Fleet!world
  <2>. QED BY <2>1 DEF Shape
<1>4. ASSUME NEW i \in Items, Fleet!Statement(i)
      PROVE  Shape'
  <2>1. UNCHANGED script
    BY <1>4, StepKinds
  <2>2. PICK t : Succeeds(t, i) \/ Throws(t, i) \/ GoesBack(t, i)
    BY <1>4, StepKinds
  <2>3. CASE Succeeds(t, i)
    BY <2>1, <2>3, ShapeMove
  <2>4. CASE Throws(t, i)
    <3>1. /\ Fleet!Now(t, i) /\ Fleet!Raise(i)
          /\ UNCHANGED <<user, row, seen, prev, applied, saved>>
      BY <2>4 DEF Throws, Fleet!Raise
    <3>2. Going'
      BY <2>1, <3>1, GoingOnShape
    <3>. QED BY <3>1, <3>2 DEF Shape, Going
  <2>5. CASE GoesBack(t, i)
    <3>1. /\ UNCHANGED <<user, row, seen, prev, applied, saved>>
          /\ left' = {} /\ item' = None /\ at' = 1
      BY <2>5 DEF GoesBack, Fleet!Leave
    <3>. QED BY <3>1 DEF Shape
  <2>. QED BY <2>2, <2>3, <2>4, <2>5
<1>. QED BY <1>1, <1>2, <1>3, <1>4 DEF Fleet!Next, Fleet!Servers, Servers, Items

-----------------------------------------------------------------------------
(* What is still to be undone *)

\* This loop, or a later one of the given kinds, still comes to x with one of
\* the statements.
Here(x, ss) ==
    /\ x \in left /\ phase \in 1..Len(Fleet!Plan)
    /\ \E j \in 2..Len(Fleet!Plan[phase]) : Fleet!Plan[phase][j] \in ss /\ (at < j \/ item # x)
Later(x, ss, overs) ==
    \E k \in 1..Len(Fleet!Plan) :
        /\ k > phase /\ Fleet!Plan[k][1] \in overs
        /\ x \in Fleet!Items(Fleet!Plan[k][1]) /\ LoopDoes(Fleet!Plan[k], ss)
Due(x, ss, overs) == Here(x, ss) \/ Later(x, ss, overs)

\* What a later loop comes to stays so.
LEMMA LaterStays ==
    ASSUME UNCHANGED <<script, mode, phase>>, NEW x, NEW ss, NEW overs,
           \A over \in overs : Fleet!Items(over)' = Fleet!Items(over),
           Later(x, ss, overs)
    PROVE  Later(x, ss, overs)'
<1>1. (Fleet!Plan)' = Fleet!Plan
  BY DEF Fleet!Plan, Fleet!S
<1>2. PICK k \in 1..Len(Fleet!Plan) :
        /\ k > phase /\ Fleet!Plan[k][1] \in overs
        /\ x \in Fleet!Items(Fleet!Plan[k][1]) /\ LoopDoes(Fleet!Plan[k], ss)
  BY DEF Later
<1>3. PICK over \in overs : over = Fleet!Plan[k][1]
  BY <1>2
<1>4. x \in Fleet!Items(over)'
  BY <1>2, <1>3
<1>5. x \in Fleet!Items(Fleet!Plan[k][1])'
  BY <1>1, <1>3, <1>4
<1>. QED BY <1>1, <1>2, <1>5 DEF Later, LoopDoes

\* What is due stays due as a loop is entered.
LEMMA DueEnters ==
    ASSUME Placing, Shape, Fleet!Enter, NEW x, NEW ss, NEW overs,
           \A over \in overs : Fleet!Items(over)' = Fleet!Items(over),
           Due(x, ss, overs)
    PROVE  mode' = mode /\ Due(x, ss, overs)'
<1>1. mode \in Fleet!Running /\ left = {} /\ at = 1 /\ script' = script /\ script \in DOMAIN Scripts
  BY DEF Fleet!Enter, Fleet!constant, Placing
<1>2. PICK k \in 1..Len(Fleet!Plan) :
        /\ k > phase /\ Fleet!Plan[k][1] \in overs
        /\ x \in Fleet!Items(Fleet!Plan[k][1]) /\ LoopDoes(Fleet!Plan[k], ss)
  BY <1>1 DEF Due, Here, Later
<1>3. /\ Fleet!Plan \in Seq(Seq(STRING)) /\ Len(Fleet!Plan) \in Nat
      /\ \A m \in 1..Len(Fleet!Plan) : Len(Fleet!Plan[m]) >= 2
  BY <1>1, PlanHas
<1>4. phase \in 0..Len(Fleet!Plan) /\ phase # Len(Fleet!Plan) /\ phase \in Nat
  BY <1>1, <1>2, <1>3 DEF Placing
<1>5. /\ mode' = mode /\ phase' = phase + 1 /\ item' = item /\ at' = 1
      /\ left' = Fleet!Items(Head(Fleet!Plan[phase + 1]))
  BY <1>1, <1>4 DEF Fleet!Enter
<1>6. (Fleet!Plan)' = Fleet!Plan
  BY <1>1, <1>5 DEF Fleet!Plan, Fleet!S
<1>7. CASE k = phase + 1
  <2>1. Fleet!Plan[k] \in Seq(STRING) /\ Len(Fleet!Plan[k]) >= 2
    BY <1>3
  <2>2. Head(Fleet!Plan[k]) = Fleet!Plan[k][1]
    BY <2>1
  <2>3. x \in left'
    BY <1>2, <1>5, <1>7, <2>2
  <2>4. PICK j \in 2..Len(Fleet!Plan[k]) : Fleet!Plan[k][j] \in ss
    BY <1>2 DEF LoopDoes
  <2>5. 1 < j
    BY <2>1
  <2>6. Here(x, ss)'
    BY <1>5, <1>6, <1>7, <2>3, <2>4, <2>5 DEF Here
  <2>. QED BY <1>5, <2>6 DEF Due
<1>8. CASE k # phase + 1
  <2>1. k > phase'
    BY <1>2, <1>4, <1>5, <1>8
  <2>2. PICK over \in overs : over = Fleet!Plan[k][1]
    BY <1>2
  <2>3. x \in Fleet!Items(over)'
    BY <1>2, <2>2
  <2>4. x \in Fleet!Items(Fleet!Plan[k][1])'
    BY <1>6, <2>2, <2>3
  <2>5. Later(x, ss, overs)'
    BY <1>2, <1>6, <2>1, <2>4 DEF Later, LoopDoes
  <2>. QED BY <1>5, <2>5 DEF Due
<1>. QED BY <1>7, <1>8

\* A loop comes to each of its items with each of its statements.
LEMMA DueAdvances ==
    ASSUME Placing, Shape, UNCHANGED script, NEW x, x # None, NEW ss, NEW overs,
           \A over \in overs : Fleet!Items(over)' = Fleet!Items(over),
           Due(x, ss, overs),
           NEW t, NEW i, Fleet!Now(t, i), Fleet!Advance(i), t \notin ss \/ x # i,
           x \in RangeOf(Fleet!Over) => None \notin RangeOf(Fleet!Over)
    PROVE  Due(x, ss, overs)'
<1>1. /\ mode \in Fleet!Running /\ left # {} /\ i \in left /\ item \in {None, i} /\ Fleet!Do[at] = t
      /\ mode' = mode /\ phase' = phase
  BY DEF Fleet!Now, Fleet!Advance
<1>2. CASE Later(x, ss, overs)
  BY <1>1, <1>2, LaterStays DEF Due
<1>3. CASE Here(x, ss)
  <2>1. (Fleet!Plan)' = Fleet!Plan
    BY <1>1 DEF Fleet!Plan, Fleet!S
  <2>2. PICK j \in 2..Len(Fleet!Plan[phase]) :
           Fleet!Plan[phase][j] \in ss /\ (at < j \/ item # x)
    BY <1>3 DEF Here
  <2>3. /\ phase \in 1..Len(Fleet!Plan) /\ at \in 1..Len(Fleet!Do)
        /\ Len(Fleet!Do) = Len(Fleet!Plan[phase]) - 1
        /\ Fleet!Do[at] = Fleet!Plan[phase][at + 1]
    BY <1>1, Statements
  <2>4. x \in left /\ at \in Nat /\ at >= 1
    BY <1>3 DEF Here, Placing
  <2>5. None \notin left
    BY <1>1, <2>4 DEF Shape
  <2>6. CASE x # i
    <3>1. x \in left' /\ item' # x
      BY <1>1, <2>4, <2>6 DEF Fleet!Advance
    <3>2. Here(x, ss)'
      BY <1>1, <2>1, <2>2, <2>3, <3>1 DEF Here
    <3>. QED BY <3>2 DEF Due
  <2>7. CASE x = i
    <3>1. at < j
      <4>1. CASE at = 1
        BY <2>2, <4>1
      <4>2. CASE at # 1
        <5>1. item \in left
          BY <2>4, <4>2 DEF Shape
        <5>. QED BY <1>1, <2>2, <2>5, <2>7, <5>1
      <4>. QED BY <4>1, <4>2
    <3>2. at + 1 # j
      BY <1>1, <2>2, <2>3, <2>7
    <3>3. Len(Fleet!Plan[phase]) \in Nat
      <4>1. Fleet!Plan \in Seq(Seq(STRING))
        BY <1>1, PlanHas DEF Placing
      <4>. QED BY <2>3, <4>1
    <3>4. at + 1 < j /\ at # Len(Fleet!Do)
      BY <2>2, <2>3, <2>4, <3>1, <3>2, <3>3
    <3>5. left' = left /\ at' = at + 1
      BY <3>4 DEF Fleet!Advance
    <3>6. Here(x, ss)'
      BY <1>1, <2>1, <2>2, <2>3, <2>4, <3>4, <3>5 DEF Here
    <3>. QED BY <3>6 DEF Due
  <2>. QED BY <2>6, <2>7
<1>. QED BY <1>2, <1>3 DEF Due

\* At the end of the plan nothing is due.
LEMMA DueEnds ==
    ASSUME Placing, left = {}, phase = Len(Fleet!Plan), mode \in Fleet!Running,
           NEW x, NEW ss, NEW overs, Due(x, ss, overs)
    PROVE  FALSE
<1>1. Fleet!Plan \in Seq(Seq(STRING))
  BY PlanHas DEF Placing
<1>2. Len(Fleet!Plan) \in Nat
  BY <1>1
<1>. QED BY <1>2 DEF Due, Here, Later

\* A loop through clients or servers has no other items.
LEMMA RangeNone ==
    ASSUME NEW over \in AllLoops, NEW x \in Clients \cup Servers, x \in RangeOf(over)
    PROVE  None \notin RangeOf(over)
<1>1. CASE over = "once"
  BY <1>1, ClientsAssumption DEF RangeOf, UserLoops
<1>2. CASE over \in UserLoops \cup {"relisted"}
  <2>1. RangeOf(over) = Clients
    BY <1>2 DEF RangeOf, UserLoops
  <2>. QED BY <2>1, ClientsAssumption
<1>3. CASE over \in RowLoops \cup {"saved", "savedAll"}
  BY <1>3, RangesAre, ClientsAssumption
<1>. QED BY <1>1, <1>2, <1>3 DEF AllLoops

\* What the loop goes through is a kind of loop.
LEMMA OverIs ==
    ASSUME Placing, mode \in Fleet!Running, left # {}
    PROVE  Fleet!Over \in AllLoops /\ Fleet!Over = Fleet!Plan[phase][1]
<1>1. phase \in 1..Len(Fleet!Plan) /\ Fleet!Over = Fleet!Plan[phase][1]
  BY Statements
<1>. QED BY <1>1, LoopsAre DEF Placing

-----------------------------------------------------------------------------
(* Lists that are not as they were read *)

Written == {u \in Clients : user[u] # seen[u]}

\* Written by the statement before this one.
JustListed(u) ==
    /\ at > 1 /\ item = u
    /\ Fleet!Plan[phase][at] = "list"
    /\ user[u] = Fleet!After(u, seen[u])

SelectedLoops == {"users", "caught", "changed"}
RunLists ==
    /\ Written # {} => \E k \in 1..phase : LoopDoes(Fleet!Plan[k], ListWrites)
    /\ phase \in Undoable(T) /\ UndoesNoted(T) =>
          \A u \in Written : u \in applied \/ JustListed(u)
    /\ phase \in Undoable(T) /\ UndoesSelected(T) =>
          /\ Written \subseteq Fleet!Selected(seen)
          /\ left # {} /\ Fleet!Over \in SelectedLoops => left \subseteq Fleet!Selected(seen)

ListOvers == IF T.who = "empty" THEN {"applied"} ELSE {"applied", "users"}
UndoLists == \A u \in Written : Due(u, {"listBack"}, ListOvers)

ListsBack ==
    seen # None =>
        /\ mode = "run" => RunLists
        /\ mode = "undo" /\ ~spoilt => UndoLists
        /\ mode = "back" => Written = {}
        /\ mode \in {"undone", "dry"} /\ ~spoilt => Written = {}

\* A client just written is noted next.
LEMMA NotedNext ==
    ASSUME Placing, mode = "run", UndoesNoted(T), phase \in Undoable(T),
           NEW u, JustListed(u), NEW t, NEW i, Fleet!Now(t, i)
    PROVE  t \in Notes
<1>1. /\ mode \in Fleet!Running /\ left # {} /\ Fleet!Do[at] = t /\ script \in DOMAIN Scripts
  BY DEF Fleet!Now, Placing
<1>2. Fleet!Plan = Course(T) /\ Fleet!Plan \in Seq(Seq(STRING))
  BY <1>1, LoopsAre, PlanHas
<1>3. /\ phase \in 1..Len(Fleet!Plan) /\ at \in 1..Len(Fleet!Plan[phase]) - 1
      /\ Fleet!Do[at] = Fleet!Plan[phase][at + 1]
  BY <1>1, Statements
<1>4. phase \in DOMAIN Fleet!Plan /\ Len(Fleet!Plan[phase]) \in Nat
  BY <1>2, <1>3
<1>5. at \in 2..Len(Fleet!Plan[phase])
  BY <1>3, <1>4 DEF JustListed
<1> DEFINE r == <<phase, at>>
<1>6. r \in Places(Course(T))
  BY <1>2, <1>4, <1>5 DEF Places
<1>7. Course(T)[r[1]][r[2]] \in ListWrites /\ r[1] \in Undoable(T)
  BY <1>2 DEF JustListed, ListWrites
<1>8. Course(T)[r[1]][r[2] + 1] \in Notes
  BY <1>6, <1>7 DEF UndoesNoted
<1>. QED BY <1>1, <1>2, <1>3, <1>8

\* What undoing goes through does not change meanwhile.
LEMMA SameListItems ==
    ASSUME UNCHANGED <<script, seen, applied>>, script \in DOMAIN Scripts
    PROVE  \A over \in ListOvers : Fleet!Items(over)' = Fleet!Items(over)
<1>1. T.who \in {"all", "vip", "affected", "holders", "empty"} /\ T' = T
  BY LoopsAssumption DEF T, IsScript
<1>2. Fleet!Items("applied")' = Fleet!Items("applied")
  BY DEF Fleet!Items
<1>3. ASSUME T.who # "empty"
      PROVE  Fleet!Items("users")' = Fleet!Items("users")
  <2>1. Fleet!Selected(seen)' = Fleet!Selected(seen)
    BY <1>1, <1>3 DEF Fleet!Selected, Fleet!Known, Fleet!S, T
  <2>. QED BY <2>1 DEF Fleet!Items
<1>. QED BY <1>2, <1>3 DEF ListOvers

\* At its start, all loops of a plan are ahead.
LEMMA PlanAhead ==
    ASSUME phase' = 0, NEW loops, (Fleet!Plan)' = loops, DOMAIN loops = 1..Len(loops),
           NEW x, NEW ss, NEW over, NEW overs, over \in overs,
           NEW k \in DOMAIN loops, loops[k][1] = over, LoopDoes(loops[k], ss),
           x \in Fleet!Items(over)'
    PROVE  Due(x, ss, overs)'
<1>1. (Fleet!Plan)'[k][1] = over /\ k \in 1..Len((Fleet!Plan)') /\ k > 0
  OBVIOUS
<1>2. Later(x, ss, overs)'
  BY <1>1 DEF Later, LoopDoes
<1>. QED BY <1>2 DEF Due

\* The loops whose exceptions are undone come first in a run.
LEMMA UndoableIs ==
    ASSUME Placing, mode = "run"
    PROVE  /\ Fleet!Trying => phase \in Undoable(T)
           /\ Undoable(T) \subseteq 1..Len(Fleet!Plan)
           /\ phase \in Nat /\ phase + 1 \in Undoable(T) => phase = 0 \/ phase \in Undoable(T)
<1> DEFINE a == Len(T.before)  b == Len(T.try)  c == Len(T.after)
<1>1. a \in Nat /\ b \in Nat /\ c \in Nat
  <2>1. T.before \in Seq(Seq(STRING)) /\ T.try \in Seq(Seq(STRING)) /\ T.after \in Seq(Seq(STRING))
    BY TableHas DEF Placing
  <2>. QED BY <2>1
<1>2. Len(Fleet!Plan) = a + b + c
  BY RunPlan DEF Placing
<1>3. Undoable(T) = 1..a + b
  BY DEF Undoable
<1>4. Fleet!Trying => phase \in a + 1..a + b
  BY DEF Fleet!Trying, Fleet!S, T
<1> HIDE DEF a, b, c
<1>. QED BY <1>1, <1>2, <1>3, <1>4

\* What a statement of a run makes of the lists.
LEMMA RunListsMove ==
    ASSUME Placing, Shape, UNCHANGED script, mode = "run", seen' # None,
           seen # None => RunLists, NEW i, NEW t, Succeeds(t, i)
    PROVE  RunLists'
<1>1. /\ mode \in Fleet!Running /\ left # {} /\ i \in left /\ item \in {None, i}
      /\ Fleet!Do[at] = t /\ mode' = "run" /\ phase' = phase
      /\ Fleet!Now(t, i) /\ Fleet!Advance(i) /\ Effects(t, i) /\ script \in DOMAIN Scripts
  BY DEF Succeeds, Fleet!Now, Fleet!Advance, Placing
<1>2. (Fleet!Plan)' = Fleet!Plan /\ T' = T /\ (Fleet!Over)' = Fleet!Over /\ left' \subseteq left
  BY <1>1 DEF Fleet!Plan, Fleet!S, Fleet!Over, T, Fleet!Advance
<1>3. /\ Fleet!Plan = Course(T) /\ phase \in 1..Len(Fleet!Plan)
      /\ LoopDoes(Fleet!Plan[phase], {t}) /\ Fleet!Over = Fleet!Plan[phase][1]
      /\ Fleet!Do[at] = Fleet!Plan[phase][at + 1] /\ at \in 1..Len(Fleet!Do)
      /\ Len(Fleet!Do) = Len(Fleet!Plan[phase]) - 1
      /\ <<phase, at + 1>> \in Places(Fleet!Plan)
  BY <1>1, LoopsAre, NowDoes, Statements
<1>4. None \notin Clients
  BY ClientsAssumption
<1>5. CASE t = "users"
  <2>1. seen' = user /\ user' = user
    BY <1>1, <1>5 DEF Effects
  <2>2. Written' = {}
    BY <2>1 DEF Written
  <2>3. phase \in Undoable(T) /\ UndoesSelected(T) => Fleet!Over = "once"
    BY <1>3, <1>5 DEF UndoesSelected
  <2>. QED BY <1>1, <1>2, <2>2, <2>3 DEF RunLists, SelectedLoops
<1>6. CASE t # "users"
  <2>1. seen' = seen /\ RunLists
    BY <1>1, <1>6 DEF Effects
  <2>2. Fleet!Selected(seen)' = Fleet!Selected(seen) \/ ~UndoesSelected(T)
    <3>1. T.who \in {"all", "vip", "affected", "holders", "empty"}
      BY <1>1, LoopsAssumption DEF T, IsScript
    <3>. QED BY <2>1, <1>2, <3>1 DEF UndoesSelected, Fleet!Selected, Fleet!Known, Fleet!S, T
  <2>3. CASE t \in ListWrites
    <3>1. applied' = applied /\ Written' \subseteq Written \cup {i}
      <4>1. PICK v : user' = [user EXCEPT ![i] = v]
        BY <1>1, <2>3 DEF Effects, ListWrites
      <4>2. \A u \in Clients : u # i => user'[u] = user[u]
        BY <4>1 DEF Shape
      <4>3. applied' = applied
        BY <1>1, <2>3 DEF Effects, ListWrites
      <4>. QED BY <2>1, <4>2, <4>3 DEF Written
    <3>2. LoopDoes(Fleet!Plan[phase], ListWrites)
      BY <1>3, <2>3 DEF LoopDoes
    <3>3. \E k \in 1..phase' : LoopDoes((Fleet!Plan)'[k], ListWrites)
      BY <1>1, <1>2, <1>3, <3>2
    <3>4. ASSUME phase \in Undoable(T), UndoesNoted(T), NEW u \in Written'
          PROVE  u \in applied' \/ JustListed(u)'
      <4> DEFINE r == <<phase, at + 1>>
      <4>1. r \in Places(Course(T)) /\ Course(T)[r[1]][r[2]] = t
        BY <1>1, <1>3
      <4>2. t = "list" /\ at + 1 < Len(Fleet!Plan[phase])
        BY <1>3, <2>3, <3>4, <4>1 DEF UndoesNoted
      <4>3. at # Len(Fleet!Do)
        BY <1>3, <4>2
      <4>4. at' = at + 1 /\ item' = i
        BY <1>1, <4>3 DEF Fleet!Advance
      <4>5. CASE u = i
        <5>1. user' = [user EXCEPT ![i] = Fleet!After(i, seen[i])]
          BY <1>1, <4>2 DEF Effects
        <5>2. user'[u] = Fleet!After(u, seen[u])
          BY <4>5, <5>1 DEF Shape, Written
        <5>3. prev' = prev
          BY <1>1, <4>2 DEF Effects
        <5>4. Fleet!After(u, seen[u])' = Fleet!After(u, seen[u])
          BY <2>1, <5>3 DEF Fleet!After, Fleet!Adds, Fleet!Drops, Fleet!Change, Fleet!On, Fleet!Off, Fleet!S
        <5>5. Fleet!Plan[phase][at + 1] = "list"
          BY <1>1, <1>3, <4>2
        <5>6. at' > 1
          <6>1. at \in Nat \ {0}
            BY DEF Placing
          <6>. QED BY <4>4, <6>1
        <5>. QED BY <1>1, <1>2, <4>4, <4>5, <5>2, <5>4, <5>5, <5>6 DEF JustListed
      <4>6. CASE u # i
        <5>1. u \in Written
          BY <3>1, <4>6
        <5>2. ~JustListed(u)
          BY <1>1, <2>3, <3>4, NotedNext DEF Notes, ListWrites
        <5>3. u \in applied
          BY <2>1, <3>4, <5>1, <5>2 DEF RunLists
        <5>. QED BY <3>1, <5>3
      <4>. QED BY <4>5, <4>6
    <3>5. ASSUME phase \in Undoable(T), UndoesSelected(T)
          PROVE  Written' \subseteq Fleet!Selected(seen)
      <4>1. Fleet!Over \in SelectedLoops
        BY <1>3, <3>2, <3>5 DEF UndoesSelected, SelectedLoops
      <4>2. Written \subseteq Fleet!Selected(seen) /\ left \subseteq Fleet!Selected(seen)
        BY <1>1, <2>1, <3>5, <4>1 DEF RunLists
      <4>. QED BY <1>1, <3>1, <4>2
    <3>. QED BY <1>1, <1>2, <2>1, <2>2, <3>3, <3>4, <3>5 DEF RunLists
  <2>4. CASE t \notin ListWrites
    <3>1. user' = user /\ Written' = Written
      BY <1>1, <2>1, <2>4 DEF Effects, ListWrites, Written
    <3>2. applied \subseteq applied'
      BY <1>1 DEF Effects
    <3>3. ASSUME phase \in Undoable(T), UndoesNoted(T), NEW u \in Written
          PROVE  u \in applied'
      <4>1. CASE u \in applied
        BY <3>2, <4>1
      <4>2. CASE JustListed(u)
        <5>1. t \in Notes /\ item = u /\ user[u] = Fleet!After(u, seen[u])
          BY <1>1, <3>3, <4>2, NotedNext DEF JustListed
        <5>2. u = i
          BY <1>1, <1>4, <5>1 DEF Written
        <5>3. Fleet!After(i, seen[i]) # seen[i]
          BY <5>1, <5>2 DEF Written
        <5>. QED BY <1>1, <5>1, <5>2, <5>3 DEF Effects, Notes
      <4>. QED BY <2>1, <3>3, <4>1, <4>2 DEF RunLists
    <3>4. Written' # {} => \E k \in 1..phase' : LoopDoes((Fleet!Plan)'[k], ListWrites)
      BY <1>1, <1>2, <2>1, <3>1 DEF RunLists
    <3>. QED BY <1>1, <1>2, <2>1, <2>2, <3>1, <3>3, <3>4 DEF RunLists
  <2>. QED BY <2>3, <2>4
<1>. QED BY <1>5, <1>6

\* A run that goes over to undoing has noted what it wrote, or undoes all.
LEMMA ListsGoToUndo ==
    ASSUME Placing, Shape, UNCHANGED script, script \notin Fleet!NotesLate, mode = "run", seen # None,
           RunLists, NEW i, NEW t, Throws(t, i), mode' = "undo"
    PROVE  UndoLists'
<1>1. /\ Fleet!Now(t, i) /\ Fleet!Raise(i) /\ t \notin Notes
      /\ UNCHANGED <<script, user, seen, applied>> /\ script \in DOMAIN Scripts
  BY DEF Throws, Fleet!Raise, Placing
<1>2. Fleet!Trying /\ T.undo # <<>> /\ phase' = 0 /\ left' = {}
  BY <1>1 DEF Fleet!Raise, Fleet!Leave, Fleet!S, T, Fleet!Advance
<1>3. phase \in Undoable(T) /\ Undoable(T) \subseteq 1..Len(Fleet!Plan) /\ Fleet!Plan = Course(T)
  BY <1>1, <1>2, UndoableIs, LoopsAre DEF Fleet!Running
<1>4. UndoesLists(T)
  BY <1>1, ListsAreUndone DEF T
<1>5. Written' = Written /\ T' = T
  BY <1>1 DEF Written, T
<1>6. (Fleet!Plan)' = T.undo /\ DOMAIN T.undo = 1..Len(T.undo)
  <2>1. (Fleet!Plan)' = T.undo
    BY <1>1 DEF Fleet!Plan, Fleet!S, T
  <2>2. T.undo \in Seq(Seq(STRING))
    BY <1>1, TableHas
  <2>. QED BY <2>1, <2>2
<1>7. CASE \A k \in Undoable(T) : ~LoopDoes(Course(T)[k], ListWrites)
  <2>1. \A k \in 1..phase : k \in Undoable(T)
    <3>1. T.before \in Seq(Seq(STRING)) /\ T.try \in Seq(Seq(STRING))
      BY <1>1, TableHas
    <3>2. PICK a, b : a = Len(T.before) /\ b = Len(T.try)
      OBVIOUS
    <3>3. a \in Nat /\ b \in Nat
      BY <3>1, <3>2
    <3>4. Undoable(T) = 1..a + b
      BY <3>2 DEF Undoable
    <3>. QED BY <1>3, <3>3, <3>4
  <2>2. Written = {}
    BY <1>3, <1>7, <2>1 DEF RunLists
  <2>. QED BY <1>5, <2>2 DEF UndoLists
<1>8. CASE UndoesNoted(T)
  <2>1. \A u \in Written : u \in applied
    BY <1>1, <1>3, <1>8, NotedNext DEF RunLists
  <2>2. PICK k \in DOMAIN T.undo : T.undo[k][1] = "applied" /\ LoopDoes(T.undo[k], {"listBack"})
    BY <1>8 DEF UndoesNoted
  <2>3. Fleet!Items("applied")' = applied
    BY <1>1 DEF Fleet!Items
  <2>4. "applied" \in ListOvers'
    BY DEF ListOvers
  <2>5. ASSUME NEW u \in Written' PROVE Due(u, {"listBack"}, ListOvers)'
    <3>1. u \in Fleet!Items("applied")'
      BY <1>5, <2>1, <2>3, <2>5
    <3>. QED BY <1>1, <1>2, <1>5, <1>6, <2>2, <2>4, <3>1, PlanAhead
  <2>. QED BY <2>5 DEF UndoLists
<1>9. CASE UndoesSelected(T)
  <2>1. Written \subseteq Fleet!Selected(seen)
    BY <1>3, <1>9 DEF RunLists
  <2>2. PICK k \in DOMAIN T.undo : T.undo[k][1] = "users" /\ LoopDoes(T.undo[k], {"listBack"})
    BY <1>9 DEF UndoesSelected
  <2>3. T.who # "empty" /\ T.who \in {"all", "vip", "affected", "holders", "empty"}
    BY <1>1, <1>9, LoopsAssumption DEF UndoesSelected, T, IsScript
  <2>4. Fleet!Selected(seen)' = Fleet!Selected(seen)
    BY <1>1, <1>5, <2>3 DEF Fleet!Selected, Fleet!Known, Fleet!S, T
  <2>5. Fleet!Items("users")' = Fleet!Selected(seen)
    BY <2>4 DEF Fleet!Items
  <2>6. "users" \in ListOvers'
    BY <1>5, <2>3 DEF ListOvers
  <2>7. ASSUME NEW u \in Written' PROVE Due(u, {"listBack"}, ListOvers)'
    <3>1. u \in Fleet!Items("users")'
      BY <1>5, <2>1, <2>5, <2>7
    <3>. QED BY <1>1, <1>2, <1>5, <1>6, <2>2, <2>6, <3>1, PlanAhead
  <2>. QED BY <2>7 DEF UndoLists
<1>. QED BY <1>2, <1>4, <1>7, <1>8, <1>9 DEF UndoesLists

\* An exception that is caught changes nothing of it.
LEMMA RunListsRaise ==
    ASSUME Placing, Shape, UNCHANGED script, mode = "run", mode' = "run", seen # None,
           RunLists, NEW i, NEW t, Throws(t, i)
    PROVE  RunLists'
<1>1. /\ Fleet!Now(t, i) /\ Fleet!Raise(i) /\ t \notin Notes /\ phase' = phase
      /\ UNCHANGED <<script, user, seen, applied>> /\ script \in DOMAIN Scripts /\ mode' = mode
  BY DEF Throws, Fleet!Raise, Placing, Fleet!Leave, Fleet!Advance
<1>2. (Fleet!Plan)' = Fleet!Plan /\ T' = T /\ Written' = Written
  BY <1>1 DEF Fleet!Plan, Fleet!S, T, Written
<1>3. ASSUME phase \in Undoable(T), UndoesNoted(T), NEW u \in Written PROVE u \in applied
  BY <1>1, <1>3, NotedNext DEF RunLists
<1>4. left' # {} => left' \subseteq left /\ left # {} /\ (Fleet!Over)' = Fleet!Over
  BY <1>1, SameLoop
<1>5. UndoesSelected(T) => Fleet!Selected(seen)' = Fleet!Selected(seen)
  <2>1. T.who \in {"all", "vip", "affected", "holders", "empty"}
    BY <1>1, LoopsAssumption DEF T, IsScript
  <2>. QED BY <1>1, <1>2, <2>1 DEF UndoesSelected, Fleet!Selected, Fleet!Known, Fleet!S, T
<1>. QED BY <1>1, <1>2, <1>3, <1>4, <1>5 DEF RunLists

\* Nor does entering a loop.
LEMMA RunListsEnter ==
    ASSUME Placing, Shape, mode = "run", mode' = "run", seen # None, RunLists, Fleet!Enter
    PROVE  RunLists'
<1>1. /\ UNCHANGED <<script, user, seen, applied, row, panel>> /\ script \in DOMAIN Scripts
      /\ left = {} /\ at = 1 /\ mode \in Fleet!Running
  BY DEF Fleet!Enter, Fleet!world, Fleet!reads, Fleet!notes, Fleet!constant, Placing
<1>2. /\ phase' = phase + 1 /\ at' = at /\ left' = Fleet!Items(Head(Fleet!Plan[phase + 1]))
      /\ phase # Len(Fleet!Plan)
  BY DEF Fleet!Enter, Fleet!Leave
<1>3. (Fleet!Plan)' = Fleet!Plan /\ T' = T /\ Written' = Written
      /\ (Fleet!Over)' = Head(Fleet!Plan[phase + 1])
  BY <1>1, <1>2 DEF Fleet!Plan, Fleet!S, T, Written, Fleet!Over
<1>4. phase \in Nat
  BY <1>1 DEF Placing
<1>5. Written # {} => \E k \in 1..phase' : LoopDoes((Fleet!Plan)'[k], ListWrites)
  BY <1>2, <1>3, <1>4 DEF RunLists
<1>6. phase' \in Undoable(T) => Written = {} \/ phase \in Undoable(T)
  <2>1. phase = 0 => Written = {}
    BY DEF RunLists
  <2>. QED BY <1>2, <1>4, <2>1, UndoableIs
<1>7. ASSUME phase' \in Undoable(T), UndoesNoted(T), NEW u \in Written PROVE u \in applied
  BY <1>1, <1>6, <1>7 DEF RunLists, JustListed
<1>8. ASSUME phase' \in Undoable(T), UndoesSelected(T)
      PROVE  /\ Written \subseteq Fleet!Selected(seen)
             /\ (Fleet!Over)' \in SelectedLoops => left' \subseteq Fleet!Selected(seen)
  <2>1. Written \subseteq Fleet!Selected(seen)
    BY <1>6, <1>8 DEF RunLists
  <2>. QED BY <1>2, <1>3, <2>1 DEF SelectedLoops, Fleet!Items
<1>9. UndoesSelected(T) => Fleet!Selected(seen)' = Fleet!Selected(seen)
  <2>1. T.who \in {"all", "vip", "affected", "holders", "empty"}
    BY <1>1, LoopsAssumption DEF T, IsScript
  <2>. QED BY <1>1, <1>3, <2>1 DEF UndoesSelected, Fleet!Selected, Fleet!Known, Fleet!S, T
<1>. QED BY <1>1, <1>3, <1>5, <1>7, <1>8, <1>9 DEF RunLists

\* The steps of undoing, and of taking back a trial.
LEMMA UndoListsMove ==
    ASSUME Placing, Shape, UNCHANGED script, mode = "undo", UndoLists,
           NEW i, NEW t, Succeeds(t, i)
    PROVE  UndoLists' /\ seen' = seen
<1>1. /\ mode \in Fleet!Running /\ left # {} /\ i \in left /\ Fleet!Now(t, i) /\ Fleet!Advance(i)
      /\ Effects(t, i) /\ script \in DOMAIN Scripts
  BY DEF Succeeds, Fleet!Now, Placing
<1>2. t \notin {"users", "servers", "dry", "dryOrFailing", "list"} \cup Notes
  BY <1>1, NowDoes, LoopsAre
<1>3. UNCHANGED <<seen, applied>>
  BY <1>1, <1>2 DEF Effects, Notes
<1>4. \A over \in ListOvers : Fleet!Items(over)' = Fleet!Items(over)
  BY <1>1, <1>3, SameListItems
<1>5. ListOvers' = ListOvers
  BY DEF ListOvers, T
<1>6. ASSUME NEW u \in Written' PROVE u \in Written /\ (t # "listBack" \/ u # i)
  <2>1. CASE t = "listBack"
    <3>1. user' = [user EXCEPT ![i] = seen[i]]
      BY <1>1, <2>1 DEF Effects
    <3>2. u \in Clients /\ user'[u] # seen[u]
      BY <1>3, <1>6 DEF Written
    <3>3. u # i
      BY <3>1, <3>2 DEF Shape
    <3>4. user'[u] = user[u]
      BY <3>1, <3>2, <3>3 DEF Shape
    <3>. QED BY <3>2, <3>3, <3>4 DEF Written
  <2>2. CASE t # "listBack"
    <3>1. user' = user
      BY <1>1, <1>2, <2>2 DEF Effects
    <3>. QED BY <1>3, <1>6, <2>2, <3>1 DEF Written
  <2>. QED BY <2>1, <2>2
<1>7. ASSUME NEW u \in Written' PROVE Due(u, {"listBack"}, ListOvers)'
  <2>1. u \in Clients /\ u # None
    BY <1>6, <1>7, ClientsAssumption DEF Written
  <2>2. u \in RangeOf(Fleet!Over) => None \notin RangeOf(Fleet!Over)
    BY <1>1, <2>1, RangeNone, OverIs
  <2>3. PICK overs : overs = ListOvers
    OBVIOUS
  <2>4. Due(u, {"listBack"}, overs) /\ (t \notin {"listBack"} \/ u # i)
    BY <1>6, <1>7, <2>3 DEF UndoLists
  <2>5. Due(u, {"listBack"}, overs)'
    BY <1>1, <1>4, <2>1, <2>2, <2>3, <2>4, DueAdvances
  <2>. QED BY <1>5, <2>3, <2>5 DEF Due, Here, Later
<1>. QED BY <1>3, <1>7 DEF UndoLists

\* Undoing ends when nothing is due.
LEMMA UndoListsEnter ==
    ASSUME Placing, Shape, mode = "undo", UndoLists, Fleet!Enter
    PROVE  /\ mode' = "undo" => UndoLists'
           /\ mode' # "undo" => Written' = {}
<1>1. /\ UNCHANGED <<script, user, seen, applied>> /\ script \in DOMAIN Scripts
      /\ left = {} /\ mode \in Fleet!Running
  BY DEF Fleet!Enter, Fleet!world, Fleet!reads, Fleet!notes, Fleet!constant, Placing
<1>2. Written' = Written /\ ListOvers' = ListOvers
  BY <1>1 DEF Written, ListOvers, T
<1>3. \A over \in ListOvers : Fleet!Items(over)' = Fleet!Items(over)
  BY <1>1, SameListItems
<1>4. ASSUME NEW u \in Written PROVE mode' = mode /\ Due(u, {"listBack"}, ListOvers)'
  <2>1. PICK overs : overs = ListOvers
    OBVIOUS
  <2>2. Due(u, {"listBack"}, overs)
    BY <1>4, <2>1 DEF UndoLists
  <2>3. mode' = mode /\ Due(u, {"listBack"}, overs)'
    BY <1>3, <2>1, <2>2, DueEnters
  <2>. QED BY <1>2, <2>1, <2>3 DEF Due, Here, Later
<1>. QED BY <1>2, <1>4 DEF UndoLists

\* Nothing is read at first.
LEMMA ListsBackInit ==
    ASSUME Fleet!Init
    PROVE  ListsBack
BY DEF Fleet!Init, ListsBack

\* A statement that succeeds keeps it,
LEMMA ListsBackMove ==
    ASSUME Placing, Shape, UNCHANGED script, ListsBack, NEW i, NEW t, Succeeds(t, i)
    PROVE  ListsBack'
<1>1. /\ mode \in Fleet!Running /\ left # {} /\ mode' = mode /\ spoilt' = spoilt
      /\ Fleet!Now(t, i) /\ Effects(t, i) /\ script \in DOMAIN Scripts
  BY DEF Succeeds, Fleet!Now, Fleet!Advance, Effects, Placing
<1>2. CASE mode = "run"
  <2>1. seen # None => RunLists
    BY <1>2 DEF ListsBack
  <2>2. seen' # None => RunLists'
    BY <1>2, <2>1, RunListsMove
  <2>. QED BY <1>1, <1>2, <2>2 DEF ListsBack
<1>3. CASE mode = "undo"
  <2>1. seen' = seen
    <3>1. t \notin {"users", "servers", "dry", "dryOrFailing", "list"} \cup Notes
      BY <1>1, <1>3, NowDoes, LoopsAre
    <3>. QED BY <1>1, <3>1 DEF Effects
  <2>2. seen # None /\ ~spoilt => UndoLists'
    BY <1>3, UndoListsMove DEF ListsBack
  <2>. QED BY <1>1, <1>3, <2>1, <2>2 DEF ListsBack
<1>4. CASE mode = "back"
  <2>1. t \notin {"users", "servers", "dry", "dryOrFailing", "list"} /\ t \notin {"listBack"}
    BY <1>1, <1>4, NowDoes, LoopsAre
  <2>2. user' = user /\ seen' = seen
    BY <1>1, <2>1 DEF Effects
  <2>. QED BY <1>1, <1>4, <2>2 DEF ListsBack, Written
<1>. QED BY <1>1, <1>2, <1>3, <1>4 DEF Fleet!Running

\* so does one that throws,
LEMMA ListsBackRaise ==
    ASSUME Placing, Shape, UNCHANGED script, script \notin Fleet!NotesLate, ListsBack,
           NEW i, NEW t, Throws(t, i)
    PROVE  ListsBack'
<1>1. /\ mode \in Fleet!Running /\ UNCHANGED <<user, seen>> /\ Fleet!Raise(i)
  BY DEF Throws, Fleet!Now
<1>2. /\ mode' \in {mode, "undo", "failed"}
      /\ mode # "run" => mode' = "failed" \/ (mode' = mode /\ spoilt')
  BY <1>1 DEF Fleet!Raise, Fleet!Leave, Fleet!Advance, Fleet!Trying, Fleet!Running
<1>3. Written' = Written
  BY <1>1 DEF Written
<1>4. CASE mode = "run" /\ seen # None
  <2>1. RunLists
    BY <1>4 DEF ListsBack
  <2>2. mode' = "run" => RunLists'
    BY <1>4, <2>1, RunListsRaise
  <2>3. mode' = "undo" => UndoLists'
    BY <1>4, <2>1, ListsGoToUndo
  <2>. QED BY <1>2, <1>4, <2>2, <2>3 DEF ListsBack
<1>5. CASE mode # "run"
  <2>1. mode = "back" => Written = {} \/ seen = None
    BY DEF ListsBack
  <2>. QED BY <1>1, <1>2, <1>3, <1>5, <2>1 DEF ListsBack, Fleet!Running
<1>. QED BY <1>1, <1>4, <1>5 DEF ListsBack

\* A run without --apply stops before it writes a list.
LEMMA ListsBackDry ==
    ASSUME Placing, Shape, UNCHANGED script, script \notin Fleet!NotesLate, ListsBack,
           NEW i, NEW t, GoesBack(t, i)
    PROVE  ListsBack'
<1>1. /\ Fleet!Now(t, i) /\ mode \in Fleet!Running /\ mode' = "back" /\ UNCHANGED <<user, seen>>
      /\ script \in DOMAIN Scripts
  BY DEF GoesBack, Fleet!Now, Fleet!Leave, Placing
<1>2. LoopDoes(Fleet!Plan[phase], {"dry", "dryOrFailing"}) /\ phase \in 1..Len(Fleet!Plan)
  BY <1>1, NowDoes DEF GoesBack
<1>3. mode = "run"
  <2>1. t \notin {"users", "servers", "dry", "dryOrFailing", "list"} \cup Notes \/ mode = "run"
    BY <1>1, NowDoes, LoopsAre
  <2>. QED BY <2>1 DEF GoesBack
<1>4. Fleet!Plan = Course(T) /\ phase \in DOMAIN Fleet!Plan
  <2>1. Fleet!Plan \in Seq(Seq(STRING))
    BY <1>1, PlanHas
  <2>. QED BY <1>1, <1>2, <1>3, <2>1, LoopsAre
<1>5. \A h \in 1..phase : ~LoopDoes(Course(T)[h], ListWrites)
  <2>1. UndoesLists(T)
    BY <1>1, ListsAreUndone DEF T
  <2>. QED BY <1>2, <1>4, <2>1 DEF UndoesLists
<1>6. seen # None => Written = {}
  BY <1>3, <1>4, <1>5 DEF ListsBack, RunLists
<1>. QED BY <1>1, <1>6 DEF ListsBack, Written

\* Entering a loop, or ending, keeps it,
LEMMA ListsBackEnter ==
    ASSUME Placing, Shape, ListsBack, Fleet!Enter
    PROVE  ListsBack'
<1>1. /\ mode \in Fleet!Running /\ UNCHANGED <<user, seen, spoilt>>
      /\ mode' = mode \/ mode' = (CASE mode = "run" -> "ok" [] mode = "undo" -> "undone" [] mode = "back" -> "dry")
  BY DEF Fleet!Enter, Fleet!Leave, Fleet!world, Fleet!reads, Fleet!notes
<1>2. Written' = Written
  BY <1>1 DEF Written
<1>3. CASE mode = "run"
  <2>1. seen # None /\ mode' = "run" => RunLists'
    BY <1>3, RunListsEnter DEF ListsBack
  <2>. QED BY <1>1, <1>3, <2>1 DEF ListsBack
<1>4. CASE mode = "undo"
  <2>1. mode' \in {"undo", "undone"}
    BY <1>1, <1>4
  <2>2. seen # None /\ ~spoilt => (mode' = "undo" => UndoLists') /\ (mode' # "undo" => Written' = {})
    BY <1>4, UndoListsEnter DEF ListsBack
  <2>. QED BY <1>1, <2>1, <2>2 DEF ListsBack
<1>5. CASE mode = "back"
  <2>1. mode' \in {"back", "dry"}
    BY <1>1, <1>5
  <2>. QED BY <1>1, <1>2, <1>5, <2>1 DEF ListsBack
<1>. QED BY <1>1, <1>3, <1>4, <1>5 DEF Fleet!Running

\* and so does every step.
LEMMA ListsBackNext ==
    ASSUME Placing, Shape, Fleet!Next, script \notin Fleet!NotesLate, ListsBack
    PROVE  ListsBack'
<1>1. CASE Fleet!Enter
  BY <1>1, ListsBackEnter
<1>2. CASE Fleet!Kill
  <2>1. mode' = "killed"
    BY <1>2 DEF Fleet!Kill, Fleet!Leave
  <2>. QED BY <2>1 DEF ListsBack
<1>3. CASE Fleet!Again
  <2>1. seen' = None
    BY <1>3 DEF Fleet!Again
  <2>. QED BY <2>1 DEF ListsBack
<1>4. ASSUME NEW i \in Items, Fleet!Statement(i)
      PROVE  ListsBack'
  <2>1. UNCHANGED script
    BY <1>4, StepKinds
  <2>2. PICK t : Succeeds(t, i) \/ Throws(t, i) \/ GoesBack(t, i)
    BY <1>4, StepKinds
  <2>. QED BY <2>1, <2>2, ListsBackMove, ListsBackRaise, ListsBackDry
<1>. QED BY <1>1, <1>2, <1>3, <1>4 DEF Fleet!Next, Fleet!Servers, Servers, Items

-----------------------------------------------------------------------------
(* Servers that are not as they were read *)

Dirty == {s \in Servers : row[s] # prev[s]}
RowOvers == {"new", "old", "saved", "savedAll"}
Together == script \in Fleet!SavesTogether
Excused == Together /\ ~(News \subseteq saved)

RunRows ==
    /\ Dirty \subseteq saved
    /\ \A s \in Dirty : \E k \in 1..phase :
          LoopDoes(Fleet!Plan[k], RowWrites) /\ s \in RangeOf(Fleet!Plan[k][1])
UndoRows == Excused \/ \A s \in Dirty : Due(s, WritesBack(T), RowOvers)

\* A script that does not create servers has created none.
Absent ==
    prev # None /\ "rowKept" \in WritesBack(T) =>
        \A s \in Servers : prev[s] = None => row[s] = None

RowsBack ==
    prev # None =>
        /\ mode = "run" => RunRows
        /\ mode \in {"undo", "back"} /\ ~spoilt => UndoRows
        /\ mode \in {"undone", "dry"} /\ ~spoilt => Excused \/ Dirty = {}

\* Statements that write back are two of those that write servers.
LEMMA WritesBackIs ==
    /\ WritesBack(T) \subseteq {"rowBack", "rowKept"} /\ "rowBack" \in WritesBack(T)
    /\ WritesBack(T) \subseteq RowWrites
BY DEF WritesBack, RowWrites

\* What undoing goes through does not change meanwhile.
LEMMA SameRowItems ==
    ASSUME UNCHANGED saved
    PROVE  \A over \in RowOvers : Fleet!Items(over)' = Fleet!Items(over)
<1>1. Fleet!Items("new")' = Fleet!Items("new")
  BY DEF Fleet!Items
<1>2. Fleet!Items("old")' = Fleet!Items("old")
  BY DEF Fleet!Items
<1>3. Fleet!Items("saved")' = Fleet!Items("saved")
  BY DEF Fleet!Items
<1>4. Fleet!Items("savedAll")' = Fleet!Items("savedAll")
  BY DEF Fleet!Items
<1>. QED BY <1>1, <1>2, <1>3, <1>4 DEF RowOvers

\* A statement that creates a server.
LEMMA Creates ==
    ASSUME Placing, NEW t, NEW i, Fleet!Now(t, i), t \in {"save", "rowOff"}
    PROVE  "rowKept" \notin WritesBack(T)
<1>1. mode \in Fleet!Running /\ Does(Fleet!Plan, {"save", "rowOff"}) /\ script \in DOMAIN Scripts
  BY NowDoes DEF Placing
<1>2. Fleet!Plan \in {Course(T), T.undo, T.back}
  BY <1>1, LoopsAre DEF Fleet!Running
<1>. QED BY <1>1, <1>2 DEF WritesBack

\* A server that was not there is not there, if the script creates none.
LEMMA AbsentMove ==
    ASSUME Placing, Shape, UNCHANGED script, Absent, NEW i, NEW t, Succeeds(t, i)
    PROVE  Absent'
<1>1. Fleet!Now(t, i) /\ Effects(t, i) /\ WritesBack(T)' = WritesBack(T)
  BY DEF Succeeds, WritesBack, T, Course
<1>2. CASE t \in RowWrites
  <2>1. row' = [row EXCEPT ![i] = Fleet!RowAfter(t, i)] /\ prev' = prev
    BY <1>1, <1>2, SameWrites DEF Effects, RowWrites
  <2> SUFFICES ASSUME prev # None, "rowKept" \in WritesBack(T), NEW s \in Servers, prev[s] = None
               PROVE  row'[s] = None
    BY <1>1, <2>1 DEF Absent
  <2>2. row[s] = None
    BY DEF Absent
  <2>3. CASE s # i
    BY <2>1, <2>2, <2>3 DEF Shape
  <2>4. CASE s = i
    <3>1. t \notin {"save", "rowOff"}
      BY <1>1, Creates
    <3>2. Fleet!RowAfter(t, i) = None
      BY <1>2, <2>2, <2>4, <3>1 DEF RowWrites, Fleet!RowAfter, Fleet!Undone, Fleet!UndoneIfThere
    <3>. QED BY <2>1, <2>4, <3>2 DEF Shape
  <2>. QED BY <2>3, <2>4
<1>3. CASE t \notin RowWrites
  <2>1. row' = row /\ prev' \in {prev, row}
    BY <1>1, <1>3, SameWrites DEF Effects
  <2>. QED BY <1>1, <2>1 DEF Absent
<1>. QED BY <1>2, <1>3

\* So every step leaves it.
LEMMA AbsentNext ==
    ASSUME Placing, Shape, Fleet!Next, Absent
    PROVE  Absent'
<1>1. CASE Fleet!Enter
  <2>1. UNCHANGED <<script, row, prev>>
    BY <1>1 DEF Fleet!Enter, Fleet!world, Fleet!reads, Fleet!constant
  <2>. QED BY <2>1 DEF Absent, WritesBack, T, Course
<1>2. CASE Fleet!Kill
  <2>1. UNCHANGED <<script, row, prev>>
    BY <1>2 DEF Fleet!Kill, Fleet!world, Fleet!reads, Fleet!constant
  <2>. QED BY <2>1 DEF Absent, WritesBack, T, Course
<1>3. CASE Fleet!Again
  <2>1. prev' = None
    BY <1>3 DEF Fleet!Again
  <2>. QED BY <2>1 DEF Absent
<1>4. ASSUME NEW i \in Items, Fleet!Statement(i)
      PROVE  Absent'
  <2>1. UNCHANGED script
    BY <1>4, StepKinds
  <2>2. PICK t : Succeeds(t, i) \/ Throws(t, i) \/ GoesBack(t, i)
    BY <1>4, StepKinds
  <2>3. CASE Throws(t, i) \/ GoesBack(t, i)
    <3>1. UNCHANGED <<row, prev>>
      BY <2>3 DEF Throws, GoesBack
    <3>. QED BY <2>1, <3>1 DEF Absent, WritesBack, T, Course
  <2>. QED BY <2>1, <2>2, <2>3, AbsentMove
<1>. QED BY <1>1, <1>2, <1>3, <1>4 DEF Fleet!Next, Fleet!Servers, Servers, Items

\* What a statement of a run makes of the servers.
LEMMA RunRowsMove ==
    ASSUME Placing, Shape, UNCHANGED script, mode = "run", prev' # None,
           prev # None => RunRows, NEW i, NEW t, Succeeds(t, i)
    PROVE  RunRows'
<1>1. /\ mode \in Fleet!Running /\ left # {} /\ i \in left /\ mode' = "run" /\ phase' = phase
      /\ Fleet!Now(t, i) /\ Effects(t, i) /\ script \in DOMAIN Scripts
  BY DEF Succeeds, Fleet!Now, Fleet!Advance, Placing
<1>2. (Fleet!Plan)' = Fleet!Plan
  BY <1>1 DEF Fleet!Plan, Fleet!S
<1>3. saved \subseteq saved'
  BY <1>1 DEF Effects
<1>4. CASE t = "servers"
  <2>1. prev' = row /\ row' = row
    BY <1>1, <1>4 DEF Effects, Fleet!RowWrites
  <2>2. Dirty' = {}
    BY <2>1 DEF Dirty
  <2>. QED BY <2>2 DEF RunRows
<1>5. CASE t \in RowWrites
  <2>1. /\ row' = [row EXCEPT ![i] = Fleet!RowAfter(t, i)] /\ prev' = prev
        /\ saved' = saved \cup {i}
    BY <1>1, <1>5, SameWrites DEF Effects, RowWrites
  <2>2. Dirty' \subseteq Dirty \cup {i}
    BY <2>1 DEF Dirty, Shape
  <2>3. LoopDoes(Fleet!Plan[phase], RowWrites) /\ i \in RangeOf(Fleet!Plan[phase][1]) /\ phase \in 1..phase
    <3>1. LoopDoes(Fleet!Plan[phase], RowWrites) /\ phase \in 1..Len(Fleet!Plan)
          /\ Fleet!Over = Fleet!Plan[phase][1]
      BY <1>1, <1>5, NowDoes
    <3>. QED BY <1>1, <3>1 DEF Shape
  <2>4. RunRows
    BY <2>1
  <2>. QED BY <1>1, <1>2, <2>1, <2>2, <2>3, <2>4 DEF RunRows
<1>6. CASE t # "servers" /\ t \notin RowWrites
  <2>1. row' = row /\ prev' = prev
    BY <1>1, <1>6, SameWrites DEF Effects
  <2>. QED BY <1>1, <1>2, <1>3, <2>1 DEF RunRows, Dirty
<1>. QED BY <1>4, <1>5, <1>6

Undoes(loops, k) ==
    LoopDoes(Course(T)[k], RowWrites) =>
        \E h \in DOMAIN loops :
            Covers(Course(T)[k][1], loops[h][1], Together) /\ LoopDoes(loops[h], WritesBack(T))

\* What the table says of undoing servers.
LEMMA TableUndoesRows ==
    ASSUME script \in DOMAIN Scripts, script \notin Fleet!KeepsRows
    PROVE  /\ T.undo # <<>> => \A k \in Undoable(T) : Undoes(T.undo, k)
           /\ \A k \in DOMAIN Course(T) : LoopDoes(Course(T)[k], {"dry", "dryOrFailing"}) =>
                 \A h \in 1..k : Undoes(T.back, h)
           /\ \A loops \in {T.undo, T.back} : \A k \in DOMAIN loops :
                 LoopDoes(loops[k], RowWrites \ {"rowBack", "rowKept"}) =>
                     \E h \in k + 1..Len(loops) :
                         /\ loops[h][1] = loops[k][1] /\ loops[k][1] \in {"new", "old"}
                         /\ LoopDoes(loops[h], WritesBack(T))
<1>1. UndoesRows(T, Together)
  BY RowsAreUndone DEF T, Together
<1>. QED BY <1>1 DEF UndoesRows, Undoes

\* A loop that undoes another comes to each server that one has written.
LEMMA RowsAhead ==
    ASSUME phase' = 0, NEW loops, (Fleet!Plan)' = loops, DOMAIN loops = 1..Len(loops),
           UNCHANGED <<script, saved>>, ~Excused, NEW s \in saved, saved \subseteq Servers,
           NEW k, Undoes(loops, k), LoopDoes(Course(T)[k], RowWrites),
           s \in RangeOf(Course(T)[k][1]), NEW ss, ss = WritesBack(T)
    PROVE  Due(s, ss, RowOvers)'
<1>1. PICK h \in DOMAIN loops :
         Covers(Course(T)[k][1], loops[h][1], Together) /\ LoopDoes(loops[h], ss)
  BY DEF Undoes
<1>2. PICK from, over : from = Course(T)[k][1] /\ over = loops[h][1]
  OBVIOUS
<1>3. Covers(from, over, Together) /\ s \in RangeOf(from)
  BY <1>1, <1>2
<1>4. CASE over = "saved"
  <2>1. s \in Fleet!Items(over)'
    BY <1>4 DEF Fleet!Items
  <2>. QED BY <1>1, <1>2, <1>4, <2>1, PlanAhead DEF RowOvers
<1>5. CASE over = "old" /\ from = "old"
  <2>1. s \in Fleet!Items(over)'
    BY <1>3, <1>5 DEF Fleet!Items, RangeOf, UserLoops
  <2>. QED BY <1>1, <1>2, <1>5, <2>1, PlanAhead DEF RowOvers
<1>6. CASE over = "new" /\ from \in {"new", "newOn"}
  <2>1. s \in Fleet!Items(over)'
    BY <1>3, <1>6 DEF Fleet!Items, RangeOf, UserLoops
  <2>. QED BY <1>1, <1>2, <1>6, <2>1, PlanAhead DEF RowOvers
<1>7. CASE over = "savedAll" /\ from \in {"new", "newOn"} /\ Together
  <2>1. News \subseteq saved /\ s \in News
    BY <1>3, <1>7 DEF Excused, RangeOf, UserLoops
  <2>2. s \in Fleet!Items(over)'
    BY <1>7, <2>1 DEF Fleet!Items
  <2>. QED BY <1>1, <1>2, <1>7, <2>2, PlanAhead DEF RowOvers
<1>. QED BY <1>3, <1>4, <1>5, <1>6, <1>7 DEF Covers

\* A run that goes over to undoing, or to taking back a trial, has a loop
\* ahead for each server it wrote.
LEMMA RowsGoToUndo ==
    ASSUME Placing, Shape, UNCHANGED <<script, row, prev, saved>>, mode = "run", RunRows,
           phase' = 0, mode' \in {"undo", "back"}, (Fleet!Plan)' \in Seq(Seq(STRING)),
           \A k \in 1..phase : Undoes((Fleet!Plan)', k)
    PROVE  UndoRows'
<1>1. /\ Dirty' = Dirty /\ Excused' = Excused /\ WritesBack(T)' = WritesBack(T)
      /\ Fleet!Plan = Course(T)
  BY LoopsAre DEF Dirty, Excused, Together, WritesBack, T, Course, Placing, Fleet!Running
<1>2. PICK loops : loops = (Fleet!Plan)'
  OBVIOUS
<1>3. PICK ss : ss = WritesBack(T)
  OBVIOUS
<1>4. DOMAIN loops = 1..Len(loops)
  BY <1>2
<1>5. ASSUME ~Excused, NEW s \in Dirty PROVE Due(s, ss, RowOvers)'
  <2>1. PICK k \in 1..phase :
            LoopDoes(Course(T)[k], RowWrites) /\ s \in RangeOf(Course(T)[k][1])
    BY <1>1, <1>5 DEF RunRows
  <2>2. Undoes(loops, k)
    BY <1>2
  <2>3. s \in saved /\ saved \subseteq Servers
    BY <1>5 DEF RunRows, Shape
  <2>. QED BY <1>2, <1>3, <1>4, <1>5, <2>1, <2>2, <2>3, RowsAhead
<1>. QED BY <1>1, <1>3, <1>5 DEF UndoRows, Due, Here, Later

\* Undoing may write a server otherwise if it writes it back later.
LEMMA BackLater ==
    ASSUME Placing, Shape, script \notin Fleet!KeepsRows, mode \in {"undo", "back"},
           UNCHANGED <<script, mode, phase, saved>>,
           NEW t, NEW i, Fleet!Now(t, i), t \in RowWrites \ {"rowBack", "rowKept"},
           NEW ss, ss = WritesBack(T)
    PROVE  Due(i, ss, RowOvers)'
<1>1. /\ mode \in Fleet!Running /\ left # {} /\ i \in left /\ script \in DOMAIN Scripts
      /\ phase \in 1..Len(Fleet!Plan) /\ Fleet!Over = Fleet!Plan[phase][1]
      /\ LoopDoes(Fleet!Plan[phase], RowWrites \ {"rowBack", "rowKept"})
  BY NowDoes DEF Placing
<1>2. Fleet!Plan \in {T.undo, T.back} /\ Fleet!Plan \in Seq(Seq(STRING))
  BY <1>1, LoopsAre, PlanHas
<1>3. phase \in DOMAIN Fleet!Plan /\ Len(Fleet!Plan) \in Nat
  BY <1>1, <1>2
<1>4. PICK h \in phase + 1..Len(Fleet!Plan) :
         /\ Fleet!Plan[h][1] = Fleet!Plan[phase][1] /\ Fleet!Plan[phase][1] \in {"new", "old"}
         /\ LoopDoes(Fleet!Plan[h], ss)
  BY <1>1, <1>2, <1>3, TableUndoesRows
<1>5. PICK over \in {"new", "old"} : over = Fleet!Over
  BY <1>1, <1>4
<1>6. i \in RangeOf(over)
  BY <1>1, <1>5 DEF Shape
<1>7. i \in Fleet!Items(over)'
  BY <1>5, <1>6 DEF Fleet!Items, RangeOf, UserLoops
<1>8. (Fleet!Plan)' = Fleet!Plan
  BY DEF Fleet!Plan, Fleet!S
<1>9. h \in 1..Len(Fleet!Plan) /\ h > phase
  BY <1>1, <1>3
<1>10. (Fleet!Plan)'[h][1] = over /\ LoopDoes((Fleet!Plan)'[h], ss) /\ h \in 1..Len((Fleet!Plan)') /\ h > phase'
  BY <1>1, <1>4, <1>5, <1>8, <1>9
<1>11. Later(i, ss, RowOvers)'
  BY <1>5, <1>7, <1>10 DEF Later, LoopDoes, RowOvers
<1>. QED BY <1>11 DEF Due

\* Each statement of the undoing leaves the servers it did not write back due.
LEMMA UndoRowsMove ==
    ASSUME Placing, Shape, Absent, UNCHANGED script, script \notin Fleet!KeepsRows,
           mode \in {"undo", "back"}, prev # None, UndoRows, NEW i, NEW t, Succeeds(t, i)
    PROVE  UndoRows'
<1>1. /\ mode \in Fleet!Running /\ left # {} /\ i \in left /\ Fleet!Now(t, i) /\ Fleet!Advance(i)
      /\ Effects(t, i) /\ script \in DOMAIN Scripts /\ mode # "run" /\ UNCHANGED <<mode, phase>>
  BY DEF Succeeds, Fleet!Now, Fleet!Advance, Placing
<1>2. t \notin {"users", "servers", "dry", "dryOrFailing", "list"} \cup Notes
  BY <1>1, NowDoes, LoopsAre
<1>3. UNCHANGED <<saved, prev>>
  BY <1>1, <1>2 DEF Effects
<1>4. PICK ss, overs : ss = WritesBack(T) /\ overs = RowOvers
  OBVIOUS
<1>5. ss = WritesBack(T)' /\ overs = RowOvers' /\ Excused' = Excused
  BY <1>3, <1>4 DEF WritesBack, T, Course, RowOvers, Excused, Together
<1>6. \A over \in overs : Fleet!Items(over)' = Fleet!Items(over)
  BY <1>3, <1>4, SameRowItems
<1>7. CASE Excused
  BY <1>5, <1>7 DEF UndoRows
<1>8. ASSUME ~Excused, NEW s \in Dirty'
      PROVE  Due(s, ss, overs)'
  <2>1. s \in Servers /\ row'[s] # prev[s] /\ s # None
    BY <1>3, <1>8, ClientsAssumption DEF Dirty
  <2>2. s \in RangeOf(Fleet!Over) => None \notin RangeOf(Fleet!Over)
    BY <1>1, <2>1, RangeNone, OverIs
  <2>3. ASSUME s \in Dirty, t \notin ss \/ s # i PROVE Due(s, ss, overs)'
    <3>1. Due(s, ss, overs)
      BY <1>4, <1>8, <2>3 DEF UndoRows
    <3>. QED BY <1>1, <1>6, <2>1, <2>2, <2>3, <3>1, DueAdvances
  <2>4. CASE t \notin RowWrites
    <3>1. row' = row /\ t \notin ss
      BY <1>1, <1>4, <2>4, SameWrites, WritesBackIs DEF Effects
    <3>2. s \in Dirty
      BY <2>1, <3>1 DEF Dirty
    <3>. QED BY <2>3, <3>1, <3>2
  <2>5. CASE t \in RowWrites
    <3>1. row' = [row EXCEPT ![i] = Fleet!RowAfter(t, i)]
      BY <1>1, <2>5, SameWrites DEF Effects
    <3>2. CASE s # i
      <4>1. row'[s] = row[s]
        BY <2>1, <3>1, <3>2 DEF Shape
      <4>. QED BY <2>1, <2>3, <3>2, <4>1 DEF Dirty
    <3>3. CASE s = i /\ t = "rowBack"
      <4>1. row'[s] = prev[s]
        BY <2>1, <3>1, <3>3 DEF Shape, Fleet!RowAfter, Fleet!Undone
      <4>. QED BY <2>1, <4>1
    <3>4. CASE s = i /\ t = "rowKept"
      <4>1. row'[s] = IF prev[s] = None THEN row[s] ELSE prev[s]
        BY <2>1, <3>1, <3>4 DEF Shape, Fleet!RowAfter, Fleet!UndoneIfThere
      <4>2. prev[s] = None /\ row'[s] = row[s]
        BY <2>1, <4>1
      <4>3. t \notin ss
        BY <1>4, <2>1, <3>4, <4>2 DEF Absent
      <4>. QED BY <2>1, <2>3, <4>2, <4>3 DEF Dirty
    <3>5. CASE s = i /\ t \notin {"rowBack", "rowKept"}
      <4>1. Due(i, ss, RowOvers)'
        BY <1>1, <1>3, <1>4, <2>5, <3>5, BackLater
      <4>. QED BY <1>5, <3>5, <4>1 DEF Due, Here, Later
    <3>. QED BY <3>2, <3>3, <3>4, <3>5
  <2>. QED BY <2>4, <2>5
<1>. QED BY <1>5, <1>7, <1>8 DEF UndoRows, Due, Here, Later

\* Undoing ends when nothing is due.
LEMMA UndoRowsEnter ==
    ASSUME Placing, Shape, mode \in {"undo", "back"}, UndoRows, Fleet!Enter
    PROVE  /\ mode' \in {"undo", "back"} => UndoRows'
           /\ mode' \notin {"undo", "back"} => (Excused' \/ Dirty' = {})
<1>1. /\ UNCHANGED <<script, row, prev, saved>> /\ script \in DOMAIN Scripts
  BY DEF Fleet!Enter, Fleet!world, Fleet!reads, Fleet!notes, Fleet!constant, Placing
<1>2. Dirty' = Dirty /\ Excused' = Excused
  BY <1>1 DEF Dirty, Excused, Together
<1>3. PICK ss, overs : ss = WritesBack(T) /\ overs = RowOvers
  OBVIOUS
<1>4. ss = WritesBack(T)' /\ overs = RowOvers'
  BY <1>1, <1>3 DEF WritesBack, T, Course, RowOvers
<1>5. \A over \in overs : Fleet!Items(over)' = Fleet!Items(over)
  BY <1>1, <1>3, SameRowItems
<1>6. ASSUME ~Excused, NEW s \in Dirty PROVE mode' = mode /\ Due(s, ss, overs)'
  <2>1. Due(s, ss, overs)
    BY <1>3, <1>6 DEF UndoRows
  <2>. QED BY <1>5, <2>1, DueEnters
<1>. QED BY <1>2, <1>4, <1>6 DEF UndoRows, Due, Here, Later

\* Loops before one whose exceptions are undone are such loops.
LEMMA BeforeUndoable ==
    ASSUME Placing, mode = "run", Fleet!Trying
    PROVE  \A k \in 1..phase : k \in Undoable(T)
<1>1. T.before \in Seq(Seq(STRING)) /\ T.try \in Seq(Seq(STRING))
  BY TableHas DEF Placing
<1>2. PICK a, b : a = Len(T.before) /\ b = Len(T.try)
  OBVIOUS
<1>3. a \in Nat /\ b \in Nat
  BY <1>1, <1>2
<1>4. Undoable(T) = 1..a + b
  BY <1>2 DEF Undoable
<1>5. phase \in Undoable(T)
  BY UndoableIs
<1>. QED BY <1>3, <1>4, <1>5

\* A statement that succeeds keeps it,
LEMMA RowsBackMove ==
    ASSUME Placing, Shape, Absent, UNCHANGED script, script \notin Fleet!KeepsRows, RowsBack,
           NEW i, NEW t, Succeeds(t, i)
    PROVE  RowsBack'
<1>1. /\ mode \in Fleet!Running /\ left # {} /\ mode' = mode /\ spoilt' = spoilt
      /\ Fleet!Now(t, i) /\ Effects(t, i) /\ script \in DOMAIN Scripts
  BY DEF Succeeds, Fleet!Now, Fleet!Advance, Effects, Placing
<1>2. CASE mode = "run"
  <2>1. prev' # None => RunRows'
    BY <1>2, RunRowsMove DEF RowsBack
  <2>. QED BY <1>1, <1>2, <2>1 DEF RowsBack
<1>3. CASE mode \in {"undo", "back"}
  <2>1. prev' = prev
    <3>1. t \notin {"users", "servers", "dry", "dryOrFailing", "list"} \cup Notes
      BY <1>1, <1>3, NowDoes, LoopsAre
    <3>. QED BY <1>1, <3>1 DEF Effects
  <2>2. prev # None /\ ~spoilt => UndoRows'
    BY <1>3, UndoRowsMove DEF RowsBack
  <2>. QED BY <1>1, <1>3, <2>1, <2>2 DEF RowsBack
<1>. QED BY <1>1, <1>2, <1>3 DEF Fleet!Running

\* so does one that throws,
LEMMA RowsBackRaise ==
    ASSUME Placing, Shape, UNCHANGED script, script \notin Fleet!KeepsRows, RowsBack,
           NEW i, NEW t, Throws(t, i)
    PROVE  RowsBack'
<1>1. /\ mode \in Fleet!Running /\ UNCHANGED <<row, prev, saved>> /\ Fleet!Raise(i)
      /\ Fleet!Now(t, i) /\ script \in DOMAIN Scripts
  BY DEF Throws, Fleet!Now, Fleet!Raise, Placing
<1>2. /\ mode' \in {mode, "undo", "failed"}
      /\ mode # "run" => mode' = "failed" \/ (mode' = mode /\ spoilt')
  BY <1>1 DEF Fleet!Raise, Fleet!Leave, Fleet!Advance, Fleet!Trying, Fleet!Running
<1>3. Dirty' = Dirty
  BY <1>1 DEF Dirty
<1>4. CASE mode = "run" /\ mode' = "run"
  <2>1. phase' = phase /\ (Fleet!Plan)' = Fleet!Plan
    BY <1>1, <1>4 DEF Fleet!Raise, Fleet!Leave, Fleet!Advance, Fleet!Plan, Fleet!S
  <2>. QED BY <1>1, <1>3, <1>4, <2>1 DEF RowsBack, RunRows
<1>5. CASE mode = "run" /\ mode' = "undo"
  <2>1. Fleet!Trying /\ T.undo # <<>> /\ phase' = 0
    BY <1>1, <1>5 DEF Fleet!Raise, Fleet!Leave, Fleet!S, T, Fleet!Advance
  <2>2. (Fleet!Plan)' = T.undo /\ T.undo \in Seq(Seq(STRING))
    BY <1>1, <1>5, TableHas DEF Fleet!Plan, Fleet!S, T
  <2>3. \A k \in 1..phase : Undoes(T.undo, k)
    BY <1>1, <1>5, <2>1, TableUndoesRows, BeforeUndoable
  <2>4. prev # None => UndoRows'
    BY <1>1, <1>5, <2>1, <2>2, <2>3, RowsGoToUndo DEF RowsBack
  <2>. QED BY <1>1, <1>5, <2>4 DEF RowsBack
<1>6. CASE mode # "run" \/ mode' = "failed"
  BY <1>1, <1>2, <1>6 DEF RowsBack, Fleet!Running
<1>. QED BY <1>2, <1>4, <1>5, <1>6

\* and one that ends a run without --apply.
LEMMA RowsBackDry ==
    ASSUME Placing, Shape, UNCHANGED script, script \notin Fleet!KeepsRows, RowsBack,
           NEW i, NEW t, GoesBack(t, i)
    PROVE  RowsBack'
<1>1. /\ Fleet!Now(t, i) /\ mode \in Fleet!Running /\ mode' = "back" /\ phase' = 0
      /\ UNCHANGED <<row, prev, saved>> /\ script \in DOMAIN Scripts
  BY DEF GoesBack, Fleet!Now, Fleet!Leave, Placing
<1>2. LoopDoes(Fleet!Plan[phase], {"dry", "dryOrFailing"}) /\ phase \in 1..Len(Fleet!Plan)
  BY <1>1, NowDoes DEF GoesBack
<1>3. mode = "run"
  <2>1. t \notin {"users", "servers", "dry", "dryOrFailing", "list"} \cup Notes \/ mode = "run"
    BY <1>1, NowDoes, LoopsAre
  <2>. QED BY <2>1 DEF GoesBack
<1>4. Fleet!Plan = Course(T) /\ phase \in DOMAIN Fleet!Plan
  <2>1. Fleet!Plan \in Seq(Seq(STRING))
    BY <1>1, PlanHas
  <2>. QED BY <1>1, <1>2, <1>3, <2>1, LoopsAre
<1>5. (Fleet!Plan)' = T.back /\ T.back \in Seq(Seq(STRING))
  BY <1>1, TableHas DEF Fleet!Plan, Fleet!S, T
<1>6. \A h \in 1..phase : Undoes(T.back, h)
  BY <1>1, <1>2, <1>4, TableUndoesRows
<1>7. prev # None => UndoRows'
  BY <1>1, <1>3, <1>5, <1>6, RowsGoToUndo DEF RowsBack
<1>. QED BY <1>1, <1>7 DEF RowsBack

\* Entering a loop, or ending, keeps it,
LEMMA RowsBackEnter ==
    ASSUME Placing, Shape, RowsBack, Fleet!Enter
    PROVE  RowsBack'
<1>1. /\ mode \in Fleet!Running /\ UNCHANGED <<script, row, prev, saved, spoilt>>
      /\ mode' = mode \/ mode' = (CASE mode = "run" -> "ok" [] mode = "undo" -> "undone" [] mode = "back" -> "dry")
  BY DEF Fleet!Enter, Fleet!Leave, Fleet!world, Fleet!reads, Fleet!notes, Fleet!constant
<1>2. Dirty' = Dirty
  BY <1>1 DEF Dirty
<1>3. CASE mode = "run"
  <2>1. CASE mode' = "run"
    <3>1. (Fleet!Plan)' = Fleet!Plan /\ phase' = phase + 1 /\ phase \in Nat
      <4>1. phase' = phase + 1
        BY <1>3, <2>1 DEF Fleet!Enter, Fleet!Leave
      <4>. QED BY <1>1, <1>3, <2>1, <4>1 DEF Fleet!Plan, Fleet!S, Placing
    <3>2. \A k \in 1..phase : k \in 1..phase'
      BY <3>1
    <3>. QED BY <1>1, <1>2, <1>3, <2>1, <3>1, <3>2 DEF RowsBack, RunRows
  <2>. QED BY <1>1, <1>3, <2>1 DEF RowsBack
<1>4. CASE mode \in {"undo", "back"}
  <2>1. mode' \in {"undo", "back", "undone", "dry"}
    BY <1>1, <1>4
  <2>2. prev # None /\ ~spoilt =>
           /\ mode' \in {"undo", "back"} => UndoRows'
           /\ mode' \notin {"undo", "back"} => Excused' \/ Dirty' = {}
    BY <1>4, UndoRowsEnter DEF RowsBack
  <2>. QED BY <1>1, <2>1, <2>2 DEF RowsBack
<1>. QED BY <1>1, <1>3, <1>4 DEF Fleet!Running

\* and so does every step.
LEMMA RowsBackNext ==
    ASSUME Placing, Shape, Absent, Fleet!Next, script \notin Fleet!KeepsRows, RowsBack
    PROVE  RowsBack'
<1>1. CASE Fleet!Enter
  BY <1>1, RowsBackEnter
<1>2. CASE Fleet!Kill
  <2>1. mode' = "killed"
    BY <1>2 DEF Fleet!Kill, Fleet!Leave
  <2>. QED BY <2>1 DEF RowsBack
<1>3. CASE Fleet!Again
  <2>1. prev' = None
    BY <1>3 DEF Fleet!Again
  <2>. QED BY <2>1 DEF RowsBack
<1>4. ASSUME NEW i \in Items, Fleet!Statement(i)
      PROVE  RowsBack'
  <2>1. UNCHANGED script
    BY <1>4, StepKinds
  <2>2. PICK t : Succeeds(t, i) \/ Throws(t, i) \/ GoesBack(t, i)
    BY <1>4, StepKinds
  <2>. QED BY <2>1, <2>2, RowsBackMove, RowsBackRaise, RowsBackDry
<1>. QED BY <1>1, <1>2, <1>3, <1>4 DEF Fleet!Next, Fleet!Servers, Servers, Items

-----------------------------------------------------------------------------
(* Undoing *)

\* While a script undoes, each list and each server it wrote is due.
UndoInv ==
    /\ Placing /\ Shape /\ Absent
    /\ script \notin Fleet!NotesLate => ListsBack
    /\ script \notin Fleet!KeepsRows => RowsBack

\* At first nothing is read and nothing is written.
LEMMA UndoInit ==
    ASSUME Fleet!Init
    PROVE  UndoInv
<1>1. /\ mode = "run" /\ left = {} /\ at = 1 /\ item = None /\ seen = None /\ prev = None
      /\ applied = {} /\ saved = {}
  BY DEF Fleet!Init
<1>2. PICK w \in Worlds : user = w.user /\ row = w.row
  BY DEF Fleet!Init
<1>3. user \in [Clients -> Fleet!Doc \cup {None}] /\ row \in [Servers -> Fleet!Row \cup {None}]
  BY <1>2, WorldsAssumption
<1>4. user = [u \in Clients |-> user[u]] /\ row = [s \in Servers |-> row[s]]
  BY <1>3
<1>5. Placing
  BY BackupInit DEF BackupInv
<1>. QED BY <1>1, <1>4, <1>5 DEF UndoInv, Shape, Absent, ListsBack, RowsBack

\* Every step keeps it.
LEMMA UndoNext ==
    ASSUME UndoInv, Fleet!Next
    PROVE  UndoInv'
<1>1. Placing /\ Shape /\ Absent
  BY DEF UndoInv
<1>2. Placing' /\ script' = script
  BY <1>1, PlacesStep
<1>3. Shape' /\ Absent'
  BY <1>1, ShapeStep, AbsentNext
<1>4. script \notin Fleet!NotesLate => ListsBack'
  BY <1>1, ListsBackNext DEF UndoInv
<1>5. script \notin Fleet!KeepsRows => RowsBack'
  BY <1>1, RowsBackNext DEF UndoInv
<1>. QED BY <1>2, <1>3, <1>4, <1>5 DEF UndoInv, Fleet!NotesLate, Fleet!KeepsRows

\* A step of the tunnels leaves what is worked out of a script's state alone.
LEMMA NothingMoves ==
    ASSUME UNCHANGED fleetVars
    PROVE  /\ T' = T /\ (Fleet!Plan)' = Fleet!Plan /\ (Fleet!Over)' = Fleet!Over
           /\ \A us : Fleet!Selected(us)' = Fleet!Selected(us) /\ Fleet!Known(us)' = Fleet!Known(us)
           /\ \A u, doc : Fleet!After(u, doc)' = Fleet!After(u, doc)
           /\ Fleet!Selected(seen)' = Fleet!Selected(seen)
           /\ \A u : Fleet!After(u, seen[u])' = Fleet!After(u, seen[u])
           /\ \A over : Fleet!Items(over)' = Fleet!Items(over)
           /\ \A x, ss, overs : Due(x, ss, overs) => Due(x, ss, overs)'
<1>1. UNCHANGED <<script, mode, phase, left, item, at, user, row, panel, seen, prev, listed,
                  applied, saved, spoilt>>
  BY DEF fleetVars
<1>2. T' = T /\ (Fleet!Plan)' = Fleet!Plan /\ (Fleet!Over)' = Fleet!Over
  BY <1>1 DEF T, Fleet!Plan, Fleet!S, Fleet!Over
<1>3. ASSUME NEW us PROVE Fleet!Selected(us)' = Fleet!Selected(us) /\ Fleet!Known(us)' = Fleet!Known(us)
  BY <1>1 DEF Fleet!Selected, Fleet!Known, Fleet!Body, Fleet!S
<1>4. ASSUME NEW u, NEW doc PROVE Fleet!After(u, doc)' = Fleet!After(u, doc)
  BY <1>1 DEF Fleet!After, Fleet!Adds, Fleet!Drops, Fleet!Change, Fleet!On, Fleet!Off, Fleet!S
<1>5. PICK was, now : was = seen /\ now = listed
  OBVIOUS
<1>6. /\ Fleet!Selected(seen)' = Fleet!Selected(was) /\ Fleet!Selected(listed)' = Fleet!Selected(now)
      /\ Fleet!Known(seen)' = Fleet!Known(was)
      /\ \A u : Fleet!After(u, seen[u])' = Fleet!After(u, was[u])
  BY <1>1, <1>3, <1>4, <1>5 DEF Fleet!Known
<1>7. ASSUME NEW over PROVE Fleet!Items(over)' = Fleet!Items(over)
  BY <1>1, <1>3, <1>5, <1>6 DEF Fleet!Items, Fleet!On
<1>8. ASSUME NEW x, NEW ss, NEW overs, Due(x, ss, overs) PROVE Due(x, ss, overs)'
  <2>1. CASE Here(x, ss)
    BY <1>1, <1>2, <2>1 DEF Due, Here
  <2>2. CASE Later(x, ss, overs)
    BY <1>1, <1>7, <2>2, LaterStays DEF Due
  <2>. QED BY <1>8, <2>1, <2>2 DEF Due
<1>. QED BY <1>2, <1>3, <1>4, <1>5, <1>6, <1>7, <1>8

\* So what is due stays so.
LEMMA UndoStill ==
    ASSUME UndoInv, UNCHANGED fleetVars
    PROVE  UndoInv'
<1>1. UNCHANGED <<script, mode, phase, left, item, at, user, row, panel, seen, prev, listed,
                  applied, saved, spoilt>>
  BY DEF fleetVars
<1>2. T' = T /\ (Fleet!Plan)' = Fleet!Plan /\ (Fleet!Over)' = Fleet!Over
  BY NothingMoves
<1>3. Fleet!Selected(seen)' = Fleet!Selected(seen) /\ \A u : Fleet!After(u, seen[u])' = Fleet!After(u, seen[u])
  BY NothingMoves
<1>4. ASSUME NEW x, NEW ss, NEW overs, Due(x, ss, overs) PROVE Due(x, ss, overs)'
  BY <1>4, NothingMoves
<1>5. Placing' /\ Shape' /\ Absent' /\ script' = script
  BY <1>1, <1>2 DEF UndoInv, Placing, Shape, Absent, WritesBack
<1>6. Written' = Written /\ ListOvers' = ListOvers /\ Dirty' = Dirty /\ Excused' = Excused
  BY <1>1, <1>2 DEF Written, ListOvers, Dirty, Excused, Together
<1>7. RunLists => RunLists'
  <2>1. ASSUME NEW u, JustListed(u) PROVE JustListed(u)'
    BY <1>1, <1>2, <1>3, <2>1 DEF JustListed
  <2>. QED BY <1>1, <1>2, <1>3, <1>6, <2>1 DEF RunLists
<1>8. UndoLists => UndoLists'
  <2>1. PICK overs : overs = ListOvers
    OBVIOUS
  <2>2. UndoLists => \A u \in Written' : Due(u, {"listBack"}, overs)'
    BY <1>4, <1>6, <2>1 DEF UndoLists
  <2>. QED BY <1>6, <2>1, <2>2 DEF UndoLists, Due, Here, Later
<1>9. RunRows => RunRows'
  BY <1>1, <1>2, <1>6 DEF RunRows
<1>10. UndoRows => UndoRows'
  <2>1. PICK ss : ss = WritesBack(T)
    OBVIOUS
  <2>2. UndoRows => Excused' \/ \A s \in Dirty' : Due(s, ss, RowOvers)'
    BY <1>4, <1>6, <2>1 DEF UndoRows
  <2>3. WritesBack(T)' = ss
    BY <1>2, <2>1 DEF WritesBack
  <2>. QED BY <1>6, <2>2, <2>3 DEF UndoRows, Due, Here, Later
<1>11. (ListsBack => ListsBack') /\ (RowsBack => RowsBack')
  BY <1>1, <1>6, <1>7, <1>8, <1>9, <1>10 DEF ListsBack, RowsBack
<1>. QED BY <1>5, <1>11 DEF UndoInv

\* When the undoing has ended, nothing is left to undo.
LEMMA UndoSafe ==
    ASSUME UndoInv
    PROVE  Fleet!UndoneIsAsBefore
<1> SUFFICES ASSUME mode \in {"undone", "dry"}, ~spoilt
             PROVE  /\ script \notin Fleet!NotesLate /\ seen # None => user = seen
                    /\ script \notin Fleet!KeepsRows /\ prev # None =>
                          \/ row = prev
                          \/ script \in Fleet!SavesTogether /\ ~(News \subseteq saved)
  BY DEF Fleet!UndoneIsAsBefore
<1>1. ASSUME script \notin Fleet!NotesLate, seen # None
      PROVE  user = seen
  <2>1. Written = {} /\ Shape
    BY <1>1 DEF UndoInv, ListsBack
  <2>2. \A u \in Clients : user[u] = seen[u]
    BY <2>1 DEF Written
  <2>. QED BY <1>1, <2>1, <2>2 DEF Shape
<1>2. ASSUME script \notin Fleet!KeepsRows, prev # None
      PROVE  row = prev \/ (script \in Fleet!SavesTogether /\ ~(News \subseteq saved))
  <2>1. (Excused \/ Dirty = {}) /\ Shape
    BY <1>2 DEF UndoInv, RowsBack
  <2>2. CASE Dirty = {}
    <3>1. \A s \in Servers : row[s] = prev[s]
      BY <2>2 DEF Dirty
    <3>. QED BY <1>2, <2>1, <3>1 DEF Shape
  <2>3. CASE Excused
    BY <2>3 DEF Excused, Together
  <2>. QED BY <2>1, <2>2, <2>3
<1>. QED BY <1>1, <1>2

\* A script that has undone its work, or its trial, has left every list and
\* every server as it found them, unless a part of the undoing failed.
THEOREM UndoneIsRestored == MCSpec => []UndoneIsAsBefore
<1>1. MCInit => UndoInv
  BY UndoInit DEF MCInit
<1>2. UndoInv /\ [MCNext]_<<part, vars, fleetVars>> => UndoInv'
  <2> SUFFICES ASSUME UndoInv, [MCNext]_<<part, vars, fleetVars>> PROVE UndoInv'
    OBVIOUS
  <2>1. CASE Fleet!Next
    BY <2>1, UndoNext
  <2>2. CASE UNCHANGED fleetVars
    BY <2>2, UndoStill
  <2>. QED BY <2>1, <2>2 DEF MCNext, Moves
<1>3. UndoInv => UndoneIsAsBefore
  BY UndoSafe DEF UndoneIsAsBefore
<1>. QED BY <1>1, <1>2, <1>3, PTL DEF MCSpec

-----------------------------------------------------------------------------
(* Lists and files when a script is done *)

Lists == Does(Course(T), {"list"})
Concerned == Does(Course(T), {"list"} \cup FileWrites) \/ Does(T.undo, {"listBack"})
MakesFiles == Does(Course(T), FileWrites) /\ script # "FixOldClients"
Skips == script \in Fleet!SkipsChanged
Last == script \in Fleet!SettingsLast

\* What the table says of a script whose clients are read at p.
Ordered(p) ==
    /\ p \in Places(T.before)
    /\ ReadsFirst(T, p) /\ KeepsSelection(T, p)
    /\ Skips => ReadOnce(T, p)
    /\ MakesFiles =>
          /\ FilesAreMade(T, p)
          /\ \A v \in BOOLEAN : v \/ T.who # "vip" => FilesFollow(T, p, v, Skips, Last)

\* The script has read the clients in this run.
HasRead(p) == mode = "run" /\ ~Ahead(p)

\* What the script wants of a client; what it made of one with the servers
\* there were at first.
Wanted(u) == IF Lists THEN Fleet!After(u, seen[u]) ELSE seen[u]
WasOn(i) == origin.row[i] # None /\ origin.row[i].on
WasOff(i) == origin.row[i] # None /\ ~origin.row[i].on
AfterFirst(u, doc) ==
    LET change == Fleet!Change(u)
        adds == IF T.pick = "on" THEN {i \in change.adds : WasOn(i)} ELSE change.adds
        drops == IF T.pick = "off" THEN {i \in change.drops : WasOff(i)} ELSE change.drops
    IN [list |-> (doc.list \ drops) \cup adds, own |-> IF T.own THEN "new" ELSE doc.own]

\* A client is still who they were, as far as the script chooses by it.
Descends(u, doc) ==
    /\ doc \in Fleet!Doc \cup {None}
    /\ doc = None <=> origin.user[u] = None
    /\ T.who = "affected" /\ doc # None => doc.list = origin.user[u].list
    /\ T.who \in {"holders", "empty"} => doc = origin.user[u] \/ doc = AfterFirst(u, doc)
AllDescend(us) == \A u \in Clients : Descends(u, us[u])

\* No list is written in a loop so far.
NoneListed == \A k \in 1..phase : ~LoopDoes(Fleet!Plan[k], {"list"})

\* Loops that come to clients.
ClientLoops ==
    {"users", "caught", "changed", "vip"} \cap {Course(T)[k][1] : k \in DOMAIN Course(T)}

ListReady(u) ==
    \/ user[u] = seen[u] /\ Due(u, {"list"}, ClientLoops)
    \/ user[u] = Wanted(u)

\* Loop r, which lists the clients again, is still to come; or it is over, and
\* those listed have a file made.
Relisting ==
    \E r, k \in 1..Len(Course(T)) :
        /\ r < k /\ Course(T)[r] = <<"once", "relist">>
        /\ Course(T)[k][1] = "relisted" /\ LoopDoes(Course(T)[k], {"refile"})
        /\ phase < r \/ (phase = r /\ left # {})
Relisted ==
    \E r \in 1..Len(Course(T)) :
        /\ Course(T)[r] = <<"once", "relist">>
        /\ phase > r \/ (phase = r /\ left = {})
FileRight(u) == Fleet!SameFile(file[u], Fleet!Body(Wanted(u)))
FileReady(u) ==
    \/ Relisting
    \/ Relisted /\ Due(u, {"refile"}, {"relisted"})
    \/ Due(u, FileWrites, ClientLoops)
    \/ FileRight(u)

ListedReady(u) ==
    \A r \in Places(Course(T)) :
        Course(T)[r[1]][r[2]] = "relist" /\ ~Ahead(r) => listed[u] = Wanted(u)

\* The first run of a script that passes over clients.
First(p) ==
    /\ runs \in Nat \ {0}
    /\ Skips /\ runs = 1 /\ mode = "run" =>
          IF Ahead(p) THEN user = origin.user ELSE seen = origin.user

FirstBody(u) ==
    LET lines == {<<i, origin.row[i].fields>> : i \in {j \in user[u].list : WasOn(j)}}
    IN /\ file[u].lines = lines /\ file[u].own = user[u].own
       /\ ~Last => file[u] = [lines |-> lines, own |-> user[u].own, panel |-> panel]
PassedOver(p, u) ==
    Skips /\ runs = 1 /\ mode = "run" /\ Ahead(p) /\ PassesOver(T, p, u = vip, Last) /\ user[u] # None =>
        /\ FirstBody(u)
        /\ \A i \in Servers \ (Fleet!Change(u).drops \ Fleet!Change(u).adds) : row[i] = origin.row[i]

\* Whether a client has lines depends on servers, which such a script leaves alone.
EmptyStays(p) ==
    T.who = "empty" =>
        /\ row = origin.row
        /\ \E q \in Places(T.before) :
              /\ Certain(T.before, q, "servers") /\ q[1] <= p[1]
              /\ mode = "run" /\ ~Ahead(q) => prev = origin.row

Selects(p) ==
    HasRead(p) =>
        /\ left # {} /\ Fleet!Over \in SelectedLoops => left \subseteq Fleet!Selected(seen)
        /\ \A u \in Clients : u \notin Fleet!Selected(seen) \/ NoneListed => user[u] = seen[u]

Prepared(u) ==
    /\ Lists => ListReady(u)
    /\ MakesFiles /\ (Skips => runs = 1) => FileReady(u)
    /\ MakesFiles /\ Does(Course(T), {"refile"}) => ListedReady(u)
Readies(p) == HasRead(p) /\ ~failing => \A u \in Fleet!Selected(seen) : Prepared(u)

-----------------------------------------------------------------------------
(* What a script wants of a client *)

\* The table, for a script that is run.
LEMMA ScriptIs ==
    ASSUME script \in DOMAIN Scripts
    PROVE  /\ T.who \in {"all", "vip", "affected", "holders", "empty"}
           /\ T.vip.adds \cup T.rest.adds \subseteq Servers
           /\ Course(T) \in Seq(Seq(STRING))
           /\ Len(Course(T)) \in Nat /\ DOMAIN Course(T) = 1..Len(Course(T))
           /\ \A k \in 1..Len(Course(T)) : Len(Course(T)[k]) >= 2 /\ Len(Course(T)[k]) \in Nat
           /\ \A k \in 1..Len(T.before) : Course(T)[k] = T.before[k] /\ k \in 1..Len(Course(T))
<1>1. T.who \in {"all", "vip", "affected", "holders", "empty"} /\ T.vip.adds \cup T.rest.adds \subseteq Servers
  BY LoopsAssumption DEF T, IsScript
<1> DEFINE a == T.before  b == T.try  c == T.after
<1>2. /\ a \in Seq(Seq(STRING)) /\ b \in Seq(Seq(STRING)) /\ c \in Seq(Seq(STRING))
      /\ Course(T) = a \o b \o c
      /\ \A loops \in {a, b, c} : \A k \in 1..Len(loops) : Len(loops[k]) >= 2
  BY TableHas DEF Course
<1> HIDE DEF a, b, c
<1>3. /\ a \o b \o c \in Seq(Seq(STRING))
      /\ \A k \in 1..Len(a) : (a \o b \o c)[k] = a[k] /\ k \in 1..Len(a \o b \o c)
  BY <1>2
<1>4. \A k \in 1..Len(Course(T)) : Len(Course(T)[k]) >= 2
  <2>1. \A loops \in {Course(T)} : \A k \in DOMAIN loops : loops[k][1] \in AllLoops
    BY LoopsAssumption DEF T, IsScript
  <2> DEFINE q == a \o b \o c
  <2>2. /\ Len(a) \in Nat /\ Len(b) \in Nat /\ Len(c) \in Nat
        /\ \A k \in 1..Len(a) : q[k] = a[k]
        /\ \A k \in 1..Len(b) : q[Len(a) + k] = b[k]
        /\ \A k \in 1..Len(c) : q[Len(a) + Len(b) + k] = c[k]
        /\ \A k \in 1..Len(q) : \/ k \in 1..Len(a)
                                \/ k - Len(a) \in 1..Len(b)
                                \/ k - Len(a) - Len(b) \in 1..Len(c)
    BY <1>2, Joined, SMTT(30)
  <2> HIDE DEF q
  <2>3. ASSUME NEW k \in 1..Len(q) PROVE Len(q[k]) >= 2
    <3>1. CASE k \in 1..Len(a)
      BY <3>1, <2>2, <1>2
    <3>2. CASE k - Len(a) \in 1..Len(b)
      <4>1. Len(a) + (k - Len(a)) = k  BY <2>2, <2>3
      <4>. QED BY <4>1, <3>2, <2>2, <1>2
    <3>3. CASE k - Len(a) - Len(b) \in 1..Len(c)
      <4>1. Len(a) + Len(b) + (k - Len(a) - Len(b)) = k  BY <2>2, <2>3
      <4>. QED BY <4>1, <3>3, <2>2, <1>2
    <3>. QED BY <3>1, <3>2, <3>3, <2>2
  <2>. QED BY <2>3, <1>2 DEF q
<1>5. /\ Course(T) \in Seq(Seq(STRING))
      /\ \A k \in 1..Len(T.before) : Course(T)[k] = T.before[k] /\ k \in 1..Len(Course(T))
  BY <1>2, <1>3 DEF a
<1>6. \A k \in 1..Len(Course(T)) : Len(Course(T)[k]) \in Nat
  BY <1>5
<1>7. Len(Course(T)) \in Nat /\ DOMAIN Course(T) = 1..Len(Course(T))
  BY <1>5
<1>. QED BY <1>1, <1>4, <1>5, <1>6, <1>7

\* What is wanted of a client is a client, and no more is wanted of that.
LEMMA AfterDoc ==
    ASSUME script \in DOMAIN Scripts, NEW u, NEW doc \in Fleet!Doc
    PROVE  /\ Fleet!After(u, doc) \in Fleet!Doc
           /\ Fleet!After(u, Fleet!After(u, doc)) = Fleet!After(u, doc)
<1>1. Fleet!Adds(u) \subseteq Servers
  <2>1. T.vip.adds \subseteq Servers /\ T.rest.adds \subseteq Servers
    BY ScriptIs
  <2>2. Fleet!Change(u).adds \subseteq Servers
    BY <2>1 DEF Fleet!Change, Fleet!S, T
  <2>. QED BY <2>2 DEF Fleet!Adds
<1>2. Fleet!After(u, doc).list \in SUBSET Servers /\ Fleet!After(u, doc).own \in {"old", "new"}
  BY <1>1 DEF Fleet!After, Fleet!Doc, Fleet!Servers, Servers
<1>3. Fleet!After(u, doc) \in Fleet!Doc
  BY <1>1, <1>2 DEF Fleet!After, Fleet!Doc, Fleet!Servers, Servers
<1> DEFINE D == Fleet!Drops(u)  A == Fleet!Adds(u)  own(x) == IF Fleet!S.own THEN "new" ELSE x
<1>4. (((doc.list \ D) \cup A) \ D) \cup A = (doc.list \ D) \cup A
  OBVIOUS
<1>5. own(own(doc.own)) = own(doc.own)
  OBVIOUS
<1>6. Fleet!After(u, Fleet!After(u, doc)) = Fleet!After(u, doc)
  BY <1>4, <1>5 DEF Fleet!After
<1>. QED BY <1>3, <1>6

\* It depends on the servers listed, if the script chooses by them.
LEMMA AfterStays ==
    ASSUME UNCHANGED script, T.pick = "all" \/ UNCHANGED prev, NEW u, NEW doc
    PROVE  Fleet!After(u, doc)' = Fleet!After(u, doc)
BY DEF Fleet!After, Fleet!Adds, Fleet!Drops, Fleet!Change, Fleet!On, Fleet!Off, Fleet!S, T

\* A script of which nothing is wanted.
LEMMA AfterUntouched ==
    ASSUME Untouched(T), NEW u, NEW doc \in Fleet!Doc
    PROVE  /\ Fleet!After(u, doc).list = doc.list
           /\ ~T.own => Fleet!After(u, doc) = doc
<1>1. Fleet!Change(u).adds = {} /\ Fleet!Change(u).drops = {}
  BY DEF Untouched, Fleet!Change, Fleet!S, T, Gives
<1>2. Fleet!Adds(u) = {} /\ Fleet!Drops(u) = {}
  BY <1>1 DEF Fleet!Adds, Fleet!Drops
<1>3. Fleet!After(u, doc) = [list |-> doc.list, own |-> IF T.own THEN "new" ELSE doc.own]
  BY <1>2 DEF Fleet!After, Fleet!S, T
<1>. QED BY <1>3 DEF Fleet!Doc

\* With the servers there were at first, it is what the script made then.
LEMMA AfterIsFirst ==
    ASSUME T.pick = "all" \/ prev = origin.row, NEW u, NEW doc
    PROVE  Fleet!After(u, doc) = AfterFirst(u, doc)
<1>1. prev = origin.row => \A i : (Fleet!On(i) <=> WasOn(i)) /\ (Fleet!Off(i) <=> WasOff(i))
  BY DEF Fleet!On, Fleet!Off, WasOn, WasOff
<1>2. CASE T.pick = "all"
  BY <1>2 DEF Fleet!After, AfterFirst, Fleet!Adds, Fleet!Drops, Fleet!S, T
<1>3. CASE prev = origin.row
  <2>1. Fleet!Adds(u) = IF T.pick = "on" THEN {i \in Fleet!Change(u).adds : WasOn(i)} ELSE Fleet!Change(u).adds
    BY <1>1, <1>3 DEF Fleet!Adds, Fleet!S, T
  <2>2. Fleet!Drops(u) = IF T.pick = "off" THEN {i \in Fleet!Change(u).drops : WasOff(i)} ELSE Fleet!Change(u).drops
    BY <1>1, <1>3 DEF Fleet!Drops, Fleet!S, T
  <2>. QED BY <2>1, <2>2 DEF Fleet!After, AfterFirst, Fleet!S, T
<1>. QED BY <1>2, <1>3

-----------------------------------------------------------------------------
(* The clients a script works on *)

\* They are clients there are; whether one is among them is up to the client.
LEMMA SelectedIs ==
    ASSUME script \in DOMAIN Scripts, NEW us
    PROVE  /\ Fleet!Selected(us) \subseteq Fleet!Known(us)
           /\ \A u \in Fleet!Selected(us) : u \in Clients /\ us[u] # None
           /\ T.who = "vip" => \A u \in Fleet!Selected(us) : u = vip
           /\ T.who = "all" => Fleet!Selected(us) = Fleet!Known(us)
           /\ \A vs : \A u \in Clients : us[u] = vs[u] /\ u \in Fleet!Selected(us) => u \in Fleet!Selected(vs)
<1>1. T.who \in {"all", "vip", "affected", "holders", "empty"}
  BY ScriptIs
<1>2. Fleet!Selected(us) \subseteq Fleet!Known(us)
  BY <1>1 DEF Fleet!Selected, Fleet!S, T
<1>3. T.who = "vip" => \A u \in Fleet!Selected(us) : u = vip
  BY DEF Fleet!Selected, Fleet!S, T
<1>4. ASSUME NEW vs, NEW u \in Clients, us[u] = vs[u], u \in Fleet!Selected(us)
      PROVE  u \in Fleet!Selected(vs)
  <2>1. u \in Fleet!Known(us) /\ u \in Fleet!Known(vs)
    BY <1>2, <1>4 DEF Fleet!Known
  <2>2. CASE T.who \in {"all", "vip", "affected", "holders"}
    BY <1>4, <2>1, <2>2 DEF Fleet!Selected, Fleet!S, T
  <2>3. CASE T.who = "empty"
    <3>1. Fleet!Body(us[u]).lines = {}
      BY <1>4, <2>3 DEF Fleet!Selected, Fleet!S, T
    <3>2. Fleet!Body(vs[u]).lines = {}
      BY <1>4, <3>1
    <3>. QED BY <2>1, <2>3, <3>2 DEF Fleet!Selected, Fleet!S, T
  <2>. QED BY <1>1, <2>2, <2>3
<1>5. T.who = "all" => Fleet!Selected(us) = Fleet!Known(us)
  BY DEF Fleet!Selected, Fleet!S, T
<1>6. \A u \in Fleet!Known(us) : u \in Clients /\ us[u] # None
  BY DEF Fleet!Known
<1>. QED BY <1>2, <1>3, <1>4, <1>5, <1>6

\* Clients who are who they were are chosen as they were.
LEMMA SelectedDescend ==
    ASSUME script \in DOMAIN Scripts, T.who \in {"all", "vip", "affected"},
           NEW us, NEW vs, AllDescend(us), AllDescend(vs)
    PROVE  Fleet!Selected(us) = Fleet!Selected(vs)
<1>1. \A u \in Clients : us[u] # None <=> vs[u] # None
  BY DEF AllDescend, Descends
<1>2. Fleet!Known(us) = Fleet!Known(vs)
  BY <1>1 DEF Fleet!Known
<1>3. CASE T.who \in {"all", "vip"}
  BY <1>2, <1>3 DEF Fleet!Selected, Fleet!S, T
<1>4. CASE T.who = "affected"
  <2>1. \A u \in Fleet!Known(us) : us[u].list = vs[u].list
    BY <1>1, <1>4 DEF AllDescend, Descends, Fleet!Known
  <2>2. Fleet!Selected(us) = {u \in Fleet!Known(us) : us[u].list \cap News # {}}
    BY <1>4 DEF Fleet!Selected, Fleet!S, T
  <2>3. Fleet!Selected(vs) = {u \in Fleet!Known(vs) : vs[u].list \cap News # {}}
    BY <1>4 DEF Fleet!Selected, Fleet!S, T
  <2>. QED BY <1>2, <2>1, <2>2, <2>3
<1>. QED BY <1>3, <1>4

\* Whom a script chooses by their lines depends on the servers.
LEMMA SelectedStays ==
    ASSUME UNCHANGED script, T.who = "empty" => UNCHANGED row, NEW us
    PROVE  Fleet!Selected(us)' = Fleet!Selected(us) /\ Fleet!Known(us)' = Fleet!Known(us)
<1>1. Fleet!S' = Fleet!S /\ T = Fleet!S
  BY DEF Fleet!S, T
<1>2. Fleet!Known(us)' = Fleet!Known(us)
  BY DEF Fleet!Known
<1>3. CASE T.who = "empty"
  <2>1. ASSUME NEW u PROVE (Fleet!Body(us[u]).lines)' = Fleet!Body(us[u]).lines
    BY <1>3 DEF Fleet!Body
  <2>2. Fleet!Selected(us)' = {u \in Fleet!Known(us)' : (Fleet!Body(us[u]).lines)' = {}}
    BY <1>1, <1>3 DEF Fleet!Selected
  <2>3. Fleet!Selected(us) = {u \in Fleet!Known(us) : Fleet!Body(us[u]).lines = {}}
    BY <1>1, <1>3 DEF Fleet!Selected
  <2>. QED BY <1>2, <2>1, <2>2, <2>3
<1>4. CASE T.who # "empty"
  BY <1>1, <1>2, <1>4 DEF Fleet!Selected
<1>. QED BY <1>2, <1>3, <1>4

\* A client with the list the script wants is still who they were.
LEMMA AfterDescends ==
    ASSUME script \in DOMAIN Scripts, NEW p, Ordered(p), T.who = "empty" => prev = origin.row,
           NEW u \in Clients, NEW doc, Descends(u, doc), doc # None
    PROVE  Descends(u, Fleet!After(u, doc))
<1>1. doc \in Fleet!Doc /\ origin.user[u] # None
  BY DEF Descends
<1>2. /\ Fleet!After(u, doc) \in Fleet!Doc
      /\ Fleet!After(u, Fleet!After(u, doc)) = Fleet!After(u, doc)
  BY <1>1, AfterDoc
<1>3. Fleet!After(u, doc) # None
  BY <1>2, ClientsAssumption
<1>4. ASSUME T.who = "affected" PROVE Fleet!After(u, doc).list = origin.user[u].list
  <2>1. Untouched(T)
    BY <1>4 DEF Ordered, KeepsSelection
  <2>. QED BY <1>1, <1>4, <2>1, AfterUntouched DEF Descends
<1>5. ASSUME T.who \in {"holders", "empty"}
      PROVE  Fleet!After(u, doc) = AfterFirst(u, Fleet!After(u, doc))
  <2>1. T.pick = "all" \/ prev = origin.row
    BY <1>5 DEF Ordered, KeepsSelection
  <2>. QED BY <1>2, <2>1, AfterIsFirst
<1>. QED BY <1>1, <1>2, <1>3, <1>4, <1>5 DEF Descends

-----------------------------------------------------------------------------
(* Steps of a run, before and after the clients are read *)

Acts(t, i) == Succeeds(t, i) /\ Stores(t, i)
Breaks(t, i) == Throws(t, i) /\ UNCHANGED <<file, panel, listed, runs>>

\* Where a statement of a run stands.
LEMMA RunsAt ==
    ASSUME Placing, Shape, mode = "run", NEW t, NEW i, Fleet!Now(t, i)
    PROVE  /\ phase \in 1..Len(Course(T)) /\ phase \in DOMAIN Course(T) /\ phase \in Nat
           /\ i \in left /\ left \subseteq RangeOf(Fleet!Over)
           /\ Fleet!Over = Course(T)[phase][1] /\ Fleet!Over \in AllLoops
           /\ Course(T)[phase][at + 1] = t /\ at + 1 \in 2..Len(Course(T)[phase]) /\ at \in Nat
           /\ Len(Fleet!Do) = Len(Course(T)[phase]) - 1
           /\ <<phase, at + 1>> \in Places(Course(T))
           /\ \A ss : t \in ss => LoopDoes(Course(T)[phase], ss) /\ Does(Course(T), ss)
<1>1. mode \in Fleet!Running /\ left # {} /\ i \in left /\ Fleet!Do[at] = t /\ script \in DOMAIN Scripts
  BY DEF Fleet!Now, Placing
<1>2. Fleet!Plan = Course(T)
  BY <1>1, LoopsAre
<1>3. /\ phase \in 1..Len(Course(T))
      /\ Len(Fleet!Do) = Len(Course(T)[phase]) - 1
      /\ at \in 1..Len(Fleet!Do)
      /\ Fleet!Do[at] = Course(T)[phase][at + 1]
      /\ Fleet!Over = Course(T)[phase][1]
      /\ <<phase, at + 1>> \in Places(Course(T))
  BY <1>1, <1>2, Statements
<1>4. DOMAIN Course(T) = 1..Len(Course(T)) /\ Len(Course(T)[phase]) \in Nat
  BY <1>1, <1>3, ScriptIs
<1>5. at + 1 \in 2..Len(Course(T)[phase]) /\ at \in Nat
  BY <1>3, <1>4
<1>6. Fleet!Over \in AllLoops
  BY <1>1, OverIs
<1>7. left \subseteq RangeOf(Fleet!Over)
  BY <1>1 DEF Shape
<1>8. ASSUME NEW ss, t \in ss PROVE LoopDoes(Course(T)[phase], ss) /\ Does(Course(T), ss)
  BY <1>2, <1>8, NowDoes
<1>. QED BY <1>1, <1>3, <1>4, <1>5, <1>6, <1>7, <1>8

\* Where the clients are read, for a script that is run.
LEMMA ReadsAt ==
    ASSUME script \in DOMAIN Scripts, NEW p, NEW s, Certain(T.before, p, s)
    PROVE  /\ p[1] \in 1..Len(Course(T)) /\ p[1] \in Nat /\ p[2] \in Nat
           /\ Course(T)[p[1]][1] = "once"
           /\ p \in Places(Course(T)) /\ p = <<p[1], p[2]>>
<1>1. /\ p[1] \in 1..Len(T.before) /\ p[1] \in Nat /\ p[2] \in Nat
      /\ p[2] \in 2..Len(T.before[p[1]]) /\ T.before[p[1]][1] = "once"
  BY CertainIs
<1>2. Course(T)[p[1]] = T.before[p[1]] /\ p[1] \in 1..Len(Course(T)) /\ DOMAIN Course(T) = 1..Len(Course(T))
  BY <1>1, ScriptIs
<1>3. p = <<p[1], p[2]>>
  <2>1. T.before \in Seq(Seq(STRING))
    BY TableHas
  <2>. QED BY <2>1, PlacesAre DEF Certain
<1>4. p \in Places(Course(T))
  BY <1>1, <1>2, <1>3 DEF Places
<1>. QED BY <1>1, <1>2, <1>3, <1>4

\* What is done in a run is done.
LEMMA StaysDone ==
    ASSUME Placing, Shape, mode = "run", mode' = "run", NEW p \in Nat \X Nat,
           p[1] \in 1..Len(Course(T)) => Course(T)[p[1]][1] = "once", ~Ahead(p),
           Fleet!Enter \/ \E i \in Items : \E t : Fleet!Now(t, i) /\ (Fleet!Advance(i) \/ Fleet!Raise(i))
    PROVE  ~Ahead(p)'
<1>1. phase \in Nat /\ at \in Nat /\ p[1] \in Nat /\ p[2] \in Nat /\ script \in DOMAIN Scripts
  BY DEF Placing, Fleet!Running
<1>2. phase >= p[1] /\ (phase = p[1] => left = {} \/ at >= p[2])
  BY <1>1 DEF Ahead
<1>3. CASE Fleet!Enter
  <2>1. phase' = phase + 1
    BY <1>3 DEF Fleet!Enter, Fleet!Leave
  <2>. QED BY <1>1, <1>2, <2>1 DEF Ahead
<1>4. ASSUME NEW i \in Items, NEW t, Fleet!Now(t, i), Fleet!Advance(i) \/ Fleet!Raise(i)
      PROVE  ~Ahead(p)'
  <2>1. /\ i \in left /\ left \subseteq RangeOf(Fleet!Over)
        /\ Fleet!Over = Course(T)[phase][1] /\ phase \in 1..Len(Course(T))
    BY <1>4, RunsAt
  <2>2. /\ phase' = phase
        /\ left' = left \ {i} \/ (left' = left /\ at' = at + 1)
    BY <1>4 DEF Fleet!Advance, Fleet!Raise, Fleet!Leave
  <2>3. CASE phase = p[1]
    <3>1. left \subseteq {None}
      BY <2>1, <2>3 DEF RangeOf, UserLoops
    <3>2. left' = {} \/ at' = at + 1
      BY <2>1, <2>2, <3>1
    <3>3. at >= p[2]
      BY <1>2, <2>1, <2>3
    <3>4. left' = {} \/ ~(at' < p[2])
      <4>1. ~(at + 1 < p[2])
        BY <1>1, <3>3
      <4>. QED BY <3>2, <4>1
    <3>5. ~(phase' < p[1])
      BY <1>1, <2>2, <2>3
    <3>. QED BY <2>2, <2>3, <3>4, <3>5 DEF Ahead
  <2>. QED BY <1>1, <1>2, <2>2, <2>3 DEF Ahead
<1>. QED BY <1>3, <1>4

\* A step of a run: it begins, or has read the clients or not, or reads them.
Goes == Fleet!Enter \/ \E i \in Items : \E t : Acts(t, i) \/ Breaks(t, i)
LEMMA RunStep ==
    ASSUME Placing, Shape, Fleet!Next, mode' = "run", NEW p, Certain(T.before, p, "users")
    PROVE  \/ Fleet!Again /\ Ahead(p)'
           \/ mode = "run" /\ Goes /\ Ahead(p) /\ Ahead(p)'
           \/ mode = "run" /\ Ahead(p) /\ HasRead(p)' /\ phase = p[1] /\ \E i \in Items : Acts("users", i)
           \/ HasRead(p) /\ HasRead(p)' /\ Goes
<1>1. script \in DOMAIN Scripts /\ UNCHANGED script
  BY PlacesStep DEF Placing
<1>2. CASE Fleet!Again
  BY <1>1, <1>2, AgainAhead
<1>3. CASE ~Fleet!Again
  <2>1. ~Fleet!Kill
    BY DEF Fleet!Kill, Fleet!Leave
  <2>2. Fleet!Enter \/ \E i \in Items : Fleet!Statement(i)
    BY <1>3, <2>1 DEF Fleet!Next, Fleet!Servers, Servers, Items
  <2>3. ASSUME NEW i \in Items, Fleet!Statement(i)
        PROVE  \E t : Acts(t, i) \/ Breaks(t, i)
    <3>1. PICK t : \/ Succeeds(t, i) /\ Stores(t, i)
                   \/ (Throws(t, i) \/ GoesBack(t, i)) /\ UNCHANGED <<file, panel, listed, runs>>
      BY <2>3, StepKinds
    <3>2. ~GoesBack(t, i)
      BY DEF GoesBack, Fleet!Leave
    <3>. QED BY <3>1, <3>2 DEF Acts, Breaks
  <2>4. Goes
    BY <2>2, <2>3 DEF Goes
  <2>5. mode = "run"
    <3>1. Fleet!Enter => mode = "run"
      BY DEF Fleet!Enter, Fleet!Leave, Fleet!Running
    <3>2. ASSUME NEW i, NEW t, Acts(t, i) \/ Breaks(t, i) PROVE mode = "run"
      <4>1. Fleet!Now(t, i) /\ (Fleet!Advance(i) \/ Fleet!Raise(i))
        BY <3>2 DEF Acts, Breaks, Succeeds, Throws
      <4>. QED BY <4>1 DEF Fleet!Advance, Fleet!Raise, Fleet!Leave
    <3>. QED BY <2>4, <3>1, <3>2 DEF Goes
  <2>6. Fleet!Enter \/ \E i \in Items : \E t : Fleet!Now(t, i) /\ (Fleet!Advance(i) \/ Fleet!Raise(i))
    BY <2>4 DEF Goes, Acts, Breaks, Succeeds, Throws
  <2>7. CASE ~Ahead(p)
    <3>1. p \in Nat \X Nat /\ Course(T)[p[1]][1] = "once"
      BY <1>1, ReadsAt
    <3>2. ~Ahead(p)'
      BY <2>5, <2>6, <2>7, <3>1, StaysDone
    <3>. QED BY <2>4, <2>5, <2>7, <3>2 DEF HasRead
  <2>8. CASE Ahead(p) /\ ~Ahead(p)'
    <3>1. ~Fleet!Enter
      BY <2>8, EnterAhead
    <3>2. PICK i \in Items : \E t : Acts(t, i) \/ Breaks(t, i)
      BY <2>4, <3>1 DEF Goes
    <3>20. PICK t : Acts(t, i) \/ Breaks(t, i)
      BY <3>2
    <3>3. ~Breaks(t, i)
      BY <2>8, RaiseAhead DEF Breaks, Throws
    <3>4. phase = p[1] /\ t = "users"
      BY <2>8, <3>20, <3>3, AdvanceAhead DEF Acts, Succeeds
    <3>. QED BY <2>5, <2>8, <3>20, <3>3, <3>4 DEF HasRead
  <2>. QED BY <2>4, <2>5, <2>7, <2>8
<1>. QED BY <1>2, <1>3

-----------------------------------------------------------------------------
(* Clients are who they were *)

\* The table does not change.
LEMMA OrderedStays ==
    ASSUME UNCHANGED script, NEW p, Ordered(p)
    PROVE  Ordered(p)'
<1>1. T' = T /\ script' = script
  BY DEF T
<1>. QED BY <1>1 DEF Ordered, MakesFiles, Skips, Last

\* The servers are listed by then, if lists depend on them.
LEMMA EmptyReads ==
    ASSUME Placing, NEW p, Ordered(p), EmptyStays(p), mode = "run", phase > p[1]
    PROVE  T.who = "empty" => prev = origin.row
<1> SUFFICES ASSUME T.who = "empty" PROVE prev = origin.row
  OBVIOUS
<1>1. PICK q \in Places(T.before) :
        /\ Certain(T.before, q, "servers") /\ q[1] <= p[1]
        /\ mode = "run" /\ ~Ahead(q) => prev = origin.row
  BY DEF EmptyStays
<1>2. q[1] \in Nat /\ p[1] \in Nat /\ phase \in Nat
  BY <1>1, CertainIs DEF Ordered, ReadsFirst, Placing, Fleet!Running
<1>3. ~Ahead(q)
  BY <1>1, <1>2 DEF Ahead
<1>. QED BY <1>1, <1>3

\* A list is written of a client the script works on.
LEMMA AtList ==
    ASSUME Placing, Shape, NEW p, Ordered(p), Selects(p), EmptyStays(p),
           NEW i, Fleet!Now("list", i)
    PROVE  /\ HasRead(p) /\ Lists /\ i \in Fleet!Selected(seen)
           /\ LoopDoes(Course(T)[phase], {"list"})
           /\ T.who = "empty" => prev = origin.row
<1>1. script \in DOMAIN Scripts /\ mode \in Fleet!Running /\ left # {}
  BY DEF Placing, Fleet!Now
<1>2. mode = "run"
  <2>1. Does(Fleet!Plan, {"users", "servers", "dry", "dryOrFailing", "list"} \cup Notes)
    BY NowDoes
  <2>. QED BY <1>1, <2>1, LoopsAre
<1>3. /\ phase \in DOMAIN Course(T) /\ i \in left /\ Fleet!Over = Course(T)[phase][1]
      /\ \A ss : "list" \in ss => LoopDoes(Course(T)[phase], ss) /\ Does(Course(T), ss)
  BY <1>2, RunsAt
<1>4. Course(T)[phase][1] \in SelectedLoops /\ phase > p[1]
  BY <1>3 DEF Ordered, ReadsFirst, SelectedLoops
<1>5. p[1] \in Nat /\ phase \in Nat
  BY <1>1, CertainIs DEF Ordered, ReadsFirst, Placing
<1>6. HasRead(p)
  BY <1>2, <1>4, <1>5 DEF HasRead, Ahead
<1>7. i \in Fleet!Selected(seen)
  BY <1>1, <1>3, <1>4, <1>6 DEF Selects
<1>8. T.who = "empty" => prev = origin.row
  BY <1>2, <1>4, EmptyReads
<1>. QED BY <1>3, <1>6, <1>7, <1>8 DEF Lists

\* What is written of a client, or was read, descends from what there was.
Traces(p) == AllDescend(user) /\ (mode = "undo" \/ HasRead(p) => AllDescend(seen))

LEMMA TracesMove ==
    ASSUME Placing, Shape, UNCHANGED <<script, origin>>, NEW p, Ordered(p), Selects(p), EmptyStays(p), Traces(p),
           NEW i, NEW t, Acts(t, i)
    PROVE  AllDescend(user)'
<1>1. Fleet!Now(t, i) /\ Effects(t, i) /\ script \in DOMAIN Scripts
  BY DEF Acts, Succeeds, Placing
<1>2. ASSUME NEW u, NEW doc, Descends(u, doc) PROVE Descends(u, doc)'
  BY <1>2 DEF Descends, AfterFirst, WasOn, WasOff, Fleet!Change, Fleet!S, T
<1>3. ASSUME user' = user PROVE AllDescend(user)'
  BY <1>2, <1>3 DEF Traces, AllDescend
<1>4. ASSUME NEW doc, user' = [user EXCEPT ![i] = doc], i \in Clients => Descends(i, doc)
      PROVE  AllDescend(user)'
  <2>1. \A u \in Clients : Descends(u, user'[u])
    BY <1>4 DEF Traces, AllDescend, Shape
  <2>2. PICK now : now = user'
    OBVIOUS
  <2>3. \A u \in Clients : Descends(u, now[u])'
    BY <1>2, <2>1, <2>2
  <2>. QED BY <2>2, <2>3 DEF AllDescend
<1>5. CASE t = "list"
  <2>1. HasRead(p) /\ i \in Fleet!Selected(seen) /\ (T.who = "empty" => prev = origin.row)
    BY <1>1, <1>5, AtList
  <2>2. i \in Clients /\ seen[i] # None
    BY <1>1, <2>1, SelectedIs
  <2>3. Descends(i, seen[i])
    BY <2>1, <2>2 DEF Traces, AllDescend
  <2>4. Descends(i, Fleet!After(i, seen[i]))
    BY <1>1, <2>1, <2>2, <2>3, AfterDescends
  <2>. QED BY <1>1, <1>4, <1>5, <2>4 DEF Effects
<1>6. CASE t = "listBack"
  <2>1. mode = "undo"
    <3>1. mode \in Fleet!Running /\ Does(Fleet!Plan, {"listBack"}) /\ Does(Fleet!Plan, {"listBack", "fileBack", "panelBack"})
      BY <1>1, <1>6, NowDoes
    <3>2. mode # "run"
      BY <1>1, <3>1, LoopsAre DEF Ordered, ReadsFirst
    <3>3. mode # "back"
      BY <1>1, <3>1, LoopsAre
    <3>. QED BY <3>1, <3>2, <3>3 DEF Fleet!Running
  <2>2. AllDescend(seen)
    BY <2>1 DEF Traces
  <2>. QED BY <1>1, <1>4, <1>6, <2>2 DEF Effects, AllDescend
<1>7. CASE t \notin {"list", "listBack"}
  BY <1>1, <1>3, <1>7 DEF Effects
<1>. QED BY <1>5, <1>6, <1>7

\* A step is one of these.
LEMMA StepIs ==
    ASSUME Placing, Fleet!Next
    PROVE  /\ UNCHANGED <<script, origin>>
           /\ \/ Fleet!Enter \/ Fleet!Kill \/ Fleet!Again
              \/ \E i \in Items : \E t : Acts(t, i)
              \/ \E i \in Items : \E t : Throws(t, i) /\ UNCHANGED <<file, panel, listed, runs>>
              \/ \E i \in Items : \E t : GoesBack(t, i) /\ UNCHANGED <<file, panel, listed, runs>>
<1>1. UNCHANGED <<script, origin>>
  BY PlacesStep
<1>2. ASSUME NEW i \in Items, Fleet!Statement(i)
      PROVE  \E t : \/ Acts(t, i)
                    \/ (Throws(t, i) \/ GoesBack(t, i)) /\ UNCHANGED <<file, panel, listed, runs>>
  BY <1>2, StepKinds DEF Acts
<1>. QED BY <1>1, <1>2 DEF Fleet!Next, Fleet!Servers, Servers, Items

\* Without the statements that write, clients stay as they are.
LEMMA TracesNext ==
    ASSUME Placing, Shape, NEW p, Ordered(p), Selects(p), EmptyStays(p), Traces(p), Fleet!Next
    PROVE  Traces(p)'
<1>1. UNCHANGED <<script, origin>> /\ Certain(T.before, p, "users")
  BY StepIs DEF Ordered, ReadsFirst
<1>2. ASSUME NEW us, AllDescend(us) PROVE AllDescend(us)'
  BY <1>1, <1>2 DEF AllDescend, Descends, AfterFirst, WasOn, WasOff, Fleet!Change, Fleet!S, T
<1>3. ASSUME user' = user PROVE AllDescend(user)'
  <2>1. PICK us : us = user
    OBVIOUS
  <2>2. AllDescend(us)'
    BY <1>2, <2>1 DEF Traces
  <2>. QED BY <1>3, <2>1, <2>2 DEF AllDescend
<1>4. ASSUME seen' \in {seen, user}, seen' = seen => mode = "undo" \/ HasRead(p)
      PROVE  AllDescend(seen)'
  <2>1. PICK us : us = seen'
    OBVIOUS
  <2>2. AllDescend(us)
    BY <1>4, <2>1 DEF Traces
  <2>3. AllDescend(us)'
    BY <1>2, <2>2
  <2>. QED BY <2>1, <2>3 DEF AllDescend
<1>5. CASE Fleet!Enter
  <2>1. user' = user /\ seen' = seen /\ (mode' = "undo" => mode = "undo")
    BY <1>5 DEF Fleet!Enter, Fleet!world, Fleet!reads, Fleet!Leave, Fleet!Running
  <2>2. HasRead(p)' => HasRead(p)
    <3> SUFFICES ASSUME HasRead(p)', ~HasRead(p) PROVE FALSE
      OBVIOUS
    <3>1. mode = "run"
      BY <1>5 DEF HasRead, Fleet!Enter, Fleet!Leave, Fleet!Running
    <3>2. Ahead(p)'
      BY <1>1, <1>5, <3>1, EnterAhead DEF HasRead
    <3>. QED BY <3>2 DEF HasRead
  <2>. QED BY <1>3, <1>4, <2>1, <2>2 DEF Traces
<1>6. CASE Fleet!Kill
  BY <1>3, <1>6 DEF Fleet!Kill, Fleet!world, Fleet!Leave, HasRead, Traces
<1>7. CASE Fleet!Again
  <2>1. user' = user /\ mode' = "run"
    BY <1>7 DEF Fleet!Again, Fleet!world, Fleet!Leave
  <2>2. Ahead(p)'
    BY <1>1, <1>7, AgainAhead
  <2>. QED BY <1>3, <2>1, <2>2 DEF Traces, HasRead
<1>8. ASSUME NEW i \in Items, NEW t, Acts(t, i) PROVE Traces(p)'
  <2>1. AllDescend(user)'
    BY <1>1, <1>8, TracesMove
  <2>2. Fleet!Now(t, i) /\ Fleet!Advance(i) /\ Effects(t, i) /\ mode' = mode
    BY <1>8 DEF Acts, Succeeds, Fleet!Advance
  <2>3. seen' \in {seen, user} /\ (t = "users" => seen' = user)
    BY <2>2 DEF Effects
  <2>4. ASSUME HasRead(p)', t # "users" PROVE HasRead(p)
    BY <1>1, <2>2, <2>4, AdvanceAhead DEF HasRead
  <2>5. CASE t = "users"
    <3>1. PICK us : us = user
      OBVIOUS
    <3>2. AllDescend(us)'
      BY <1>2, <3>1 DEF Traces
    <3>3. AllDescend(seen)'
      BY <2>3, <2>5, <3>1, <3>2 DEF AllDescend
    <3>. QED BY <2>1, <3>3 DEF Traces
  <2>6. CASE t # "users"
    BY <1>4, <2>1, <2>2, <2>3, <2>4, <2>6 DEF Traces
  <2>. QED BY <2>5, <2>6
<1>9. ASSUME NEW i \in Items, NEW t, Throws(t, i) PROVE Traces(p)'
  <2>1. Fleet!Now(t, i) /\ Fleet!Raise(i) /\ user' = user /\ seen' = seen
    BY <1>9 DEF Throws
  <2>2. HasRead(p)' => HasRead(p)
    <3> SUFFICES ASSUME HasRead(p)', ~HasRead(p) PROVE FALSE
      OBVIOUS
    <3>1. mode = "run"
      BY <2>1 DEF HasRead, Fleet!Raise, Fleet!Advance, Fleet!Leave
    <3>2. Ahead(p)' \/ mode' = "failed"
      BY <1>1, <2>1, <3>1, RaiseAhead DEF HasRead
    <3>. QED BY <3>2 DEF HasRead
  <2>3. mode' = "undo" => mode = "undo" \/ HasRead(p)
    BY <1>1, <2>1, UndoesLater DEF HasRead
  <2>. QED BY <1>3, <1>4, <2>1, <2>2, <2>3 DEF Traces
<1>10. ASSUME NEW i \in Items, NEW t, GoesBack(t, i) PROVE Traces(p)'
  <2>1. user' = user /\ mode' = "back"
    BY <1>10 DEF GoesBack, Fleet!Leave
  <2>. QED BY <1>3, <2>1 DEF Traces, HasRead
<1>. QED BY <1>5, <1>6, <1>7, <1>8, <1>9, <1>10, StepIs

-----------------------------------------------------------------------------
(* Servers that choose clients stay *)

LEMMA EmptyNext ==
    ASSUME Placing, Shape, NEW p, Ordered(p), EmptyStays(p), Fleet!Next
    PROVE  EmptyStays(p)'
<1>1. UNCHANGED <<script, origin>> /\ T' = T /\ script \in DOMAIN Scripts
  BY StepIs DEF T, Placing
<1> SUFFICES ASSUME T.who = "empty"
             PROVE  /\ row' = origin.row
                    /\ \E q \in Places(T.before) :
                          /\ Certain(T.before, q, "servers") /\ q[1] <= p[1]
                          /\ mode' = "run" /\ ~Ahead(q)' => prev' = origin.row
  BY <1>1 DEF EmptyStays
<1>2. row = origin.row
  BY DEF EmptyStays
<1>3. PICK q \in Places(T.before) :
        /\ Certain(T.before, q, "servers") /\ q[1] <= p[1]
        /\ mode = "run" /\ ~Ahead(q) => prev = origin.row
  BY DEF EmptyStays
<1>4. ASSUME NEW t, NEW i, Fleet!Now(t, i) PROVE t \notin RowWrites
  <2> SUFFICES ASSUME t \in RowWrites PROVE FALSE
    OBVIOUS
  <2>1. mode \in Fleet!Running /\ Does(Fleet!Plan, RowWrites \cup {"panel", "panelBack"})
    BY <1>4, NowDoes
  <2>2. Fleet!Plan \in {Course(T), T.undo, T.back}
    BY <1>1, <2>1, LoopsAre DEF Fleet!Running
  <2>. QED BY <2>1, <2>2 DEF Ordered, KeepsSelection
<1>5. row' = row
  <2>1. ASSUME NEW i, NEW t, Acts(t, i) PROVE row' = row
    <3>1. t \notin Fleet!RowWrites
      BY <1>4, <2>1, SameWrites DEF Acts, Succeeds
    <3>. QED BY <2>1, <3>1 DEF Acts, Succeeds, Effects
  <2>. QED BY <2>1, StepIs DEF Fleet!Enter, Fleet!Kill, Fleet!Again, Fleet!world, Throws, GoesBack
<1>6. mode' = "run" /\ ~Ahead(q)' => prev' = origin.row
  <2> SUFFICES ASSUME mode' = "run", ~Ahead(q)' PROVE prev' = origin.row
    OBVIOUS
  <2>1. CASE Fleet!Enter
    <3>1. mode = "run" /\ prev' = prev
      BY <2>1 DEF Fleet!Enter, Fleet!Leave, Fleet!reads, Fleet!Running
    <3>2. ~Ahead(q)
      BY <1>3, <2>1, EnterAhead
    <3>. QED BY <1>3, <3>1, <3>2
  <2>2. ~Fleet!Kill
    BY DEF Fleet!Kill, Fleet!Leave
  <2>3. ~Fleet!Again
    BY <1>1, <1>3, AgainAhead
  <2>4. ASSUME NEW i, NEW t, Acts(t, i) PROVE prev' = origin.row
    <3>1. Fleet!Now(t, i) /\ Fleet!Advance(i) /\ Effects(t, i) /\ mode = "run"
      BY <2>4 DEF Acts, Succeeds, Fleet!Advance
    <3>2. CASE t = "servers"
      BY <1>2, <3>1, <3>2 DEF Effects
    <3>3. CASE t # "servers"
      <4>1. ~Ahead(q) /\ prev' = prev
        BY <1>3, <3>1, <3>3, AdvanceAhead DEF Effects
      <4>. QED BY <1>3, <3>1, <4>1
    <3>. QED BY <3>2, <3>3
  <2>5. ASSUME NEW i, NEW t, Throws(t, i) PROVE prev' = origin.row
    <3>1. Fleet!Now(t, i) /\ Fleet!Raise(i) /\ prev' = prev
      BY <2>5 DEF Throws
    <3>2. mode = "run"
      BY <3>1 DEF Fleet!Raise, Fleet!Advance, Fleet!Leave
    <3>3. ~Ahead(q)
      BY <1>3, <3>1, RaiseAhead
    <3>. QED BY <1>3, <3>1, <3>2, <3>3
  <2>6. ASSUME NEW i, NEW t, GoesBack(t, i) PROVE FALSE
    BY <2>6 DEF GoesBack, Fleet!Leave
  <2>. QED BY <2>1, <2>2, <2>3, <2>4, <2>5, <2>6, StepIs
<1>. QED BY <1>2, <1>3, <1>5, <1>6

-----------------------------------------------------------------------------
(* The first run *)

\* Before the clients are read no list and no file is written.
LEMMA UnreadStays ==
    ASSUME Placing, Shape, NEW p, Ordered(p), Ahead(p), NEW i, NEW t, Acts(t, i)
    PROVE  UNCHANGED <<user, file>> /\ t # "panelBack"
<1>1. Fleet!Now(t, i) /\ Effects(t, i) /\ Stores(t, i) /\ mode = "run" /\ script \in DOMAIN Scripts
  BY DEF Acts, Succeeds, Ahead, Placing
<1>2. /\ phase \in DOMAIN Course(T) /\ phase \in Nat
      /\ \A ss : t \in ss => LoopDoes(Course(T)[phase], ss) /\ Does(Course(T), ss)
  BY <1>1, RunsAt
<1>3. p[1] \in Nat
  BY <1>1, ReadsAt DEF Ordered, ReadsFirst
<1>4. t \notin {"list"} \cup FileWrites
  <2> SUFFICES ASSUME t \in {"list"} \cup FileWrites PROVE FALSE
    OBVIOUS
  <2>1. phase > p[1]
    BY <1>2 DEF Ordered, ReadsFirst
  <2>. QED BY <1>2, <1>3, <2>1 DEF Ahead
<1>5. t \notin {"listBack", "fileBack", "panelBack"}
  BY <1>2 DEF Ordered, ReadsFirst
<1>. QED BY <1>1, <1>4, <1>5 DEF Effects, Stores, FileWrites

\* A script that passes over clients reads them once.
LEMMA ReadsOnce ==
    ASSUME Placing, Shape, NEW p, Ordered(p), ReadOnce(T, p), HasRead(p), NEW i, NEW t, Fleet!Now(t, i)
    PROVE  t # "users"
<1> SUFFICES ASSUME t = "users" PROVE FALSE
  OBVIOUS
<1>1. mode = "run" /\ script \in DOMAIN Scripts /\ i \in left
  BY DEF HasRead, Placing, Fleet!Now
<1>2. <<phase, at + 1>> \in Places(Course(T)) /\ Course(T)[phase][at + 1] = "users" /\ at \in Nat /\ phase \in Nat
  BY <1>1, RunsAt
<1>3. <<phase, at + 1>> = p
  BY <1>2 DEF ReadOnce
<1>4. phase = p[1] /\ at < p[2]
  BY <1>2, <1>3
<1>. QED BY <1>1, <1>4 DEF HasRead, Ahead

\* In its first run it reads what there was at first.
LEMMA FirstNext ==
    ASSUME Placing, Shape, NEW p, Ordered(p), First(p), Fleet!Next
    PROVE  First(p)'
<1>1. UNCHANGED <<script, origin>> /\ Certain(T.before, p, "users") /\ Skips' = Skips
  BY StepIs DEF Ordered, ReadsFirst, Skips
<1>2. runs' = runs \/ (Fleet!Again /\ runs' = runs + 1)
  BY StepIs DEF Fleet!Enter, Fleet!Kill, Fleet!Again, Fleet!bounds, Acts, Stores
<1>3. runs' \in Nat \ {0} /\ (runs' = 1 => runs' = runs /\ ~(Fleet!Again /\ runs' = runs + 1))
  BY <1>2 DEF First
<1> SUFFICES ASSUME Skips, runs' = 1, mode' = "run"
             PROVE  IF Ahead(p)' THEN user' = origin.user ELSE seen' = origin.user
  BY <1>1, <1>3 DEF First
<1>4. runs = 1 /\ ~Fleet!Again
  BY <1>2, <1>3 DEF Fleet!Again
<1>5. CASE mode = "run" /\ Goes /\ Ahead(p) /\ Ahead(p)'
  <2>1. user = origin.user
    BY <1>4, <1>5 DEF First
  <2>2. ASSUME NEW i, NEW t, Acts(t, i) PROVE user' = user
    BY <1>5, <2>2, UnreadStays
  <2>3. user' = user
    BY <1>5, <2>2 DEF Goes, Fleet!Enter, Fleet!world, Breaks, Throws
  <2>. QED BY <1>5, <2>1, <2>3
<1>6. CASE mode = "run" /\ Ahead(p) /\ HasRead(p)' /\ phase = p[1] /\ \E i \in Items : Acts("users", i)
  <2>1. user = origin.user
    BY <1>4, <1>6 DEF First
  <2>2. seen' = user
    BY <1>6 DEF Acts, Succeeds, Effects
  <2>. QED BY <1>6, <2>1, <2>2 DEF HasRead
<1>7. CASE HasRead(p) /\ HasRead(p)' /\ Goes
  <2>1. seen = origin.user
    BY <1>4, <1>7 DEF First, HasRead
  <2>2. ASSUME NEW i, NEW t, Acts(t, i) PROVE seen' = seen
    <3>1. t # "users"
      BY <1>7, <2>2, ReadsOnce DEF Acts, Succeeds, Ordered
    <3>. QED BY <2>2, <3>1 DEF Acts, Succeeds, Effects
  <2>3. seen' = seen
    BY <1>7, <2>2 DEF Goes, Fleet!Enter, Fleet!reads, Breaks, Throws
  <2>. QED BY <1>7, <2>1, <2>3 DEF HasRead
<1>. QED BY <1>1, <1>4, <1>5, <1>6, <1>7, RunStep

\* Clients it passes over have the file they had at first, and it is right.
LEMMA RowsSpared ==
    ASSUME Placing, Shape, mode = "run", NEW i, NEW t, Acts(t, i), t \in RowWrites
    PROVE  /\ i \in ServersOf(Course(T)[phase][1]) /\ i \in Servers
           /\ phase \in DOMAIN Course(T) /\ LoopDoes(Course(T)[phase], RowWrites)
           /\ Course(T)[phase][1] \in RowLoops
           /\ row' = [row EXCEPT ![i] = Fleet!RowAfter(t, i)]
<1>1. Fleet!Now(t, i) /\ Effects(t, i) /\ script \in DOMAIN Scripts /\ mode \in Fleet!Running
  BY DEF Acts, Succeeds, Placing, Fleet!Now
<1>2. /\ phase \in DOMAIN Course(T) /\ phase \in 1..Len(Course(T))
      /\ i \in left /\ left \subseteq RangeOf(Fleet!Over)
      /\ Fleet!Over = Course(T)[phase][1] /\ LoopDoes(Course(T)[phase], RowWrites)
  BY <1>1, RunsAt
<1>3. Fleet!Over \in RowLoops
  BY <1>1, <1>2, LoopsAre
<1>4. RangeOf(Fleet!Over) = ServersOf(Fleet!Over) /\ RangeOf(Fleet!Over) \subseteq Servers
  BY <1>3, RangesAre DEF RangeOf, ServersOf, RowLoops, UserLoops
<1>. QED BY <1>1, <1>2, <1>3, <1>4, SameWrites DEF Effects

LEMMA PassedNext ==
    ASSUME Placing, Shape, NEW p, Ordered(p), First(p), NEW u \in Clients, PassedOver(p, u), Fleet!Next
    PROVE  PassedOver(p, u)'
<1>1. UNCHANGED <<script, origin>> /\ T' = T /\ Certain(T.before, p, "users") /\ Skips' = Skips /\ Last' = Last
  BY StepIs DEF Ordered, ReadsFirst, Skips, Last, T
<1> DEFINE spared == Fleet!Change(u).drops \ Fleet!Change(u).adds
<1>2. spared' = spared /\ spared = IF u = vip THEN T.vip.drops \ T.vip.adds ELSE T.rest.drops \ T.rest.adds
  BY <1>1 DEF Fleet!Change, Fleet!S, T
<1> HIDE DEF spared
<1>3. PICK was : was = spared
  OBVIOUS
<1> SUFFICES ASSUME Skips, runs' = 1, mode' = "run", Ahead(p)', PassesOver(T, p, u = vip, Last), user'[u] # None
             PROVE  FirstBody(u)' /\ \A i \in Servers \ was : row'[i] = origin.row[i]
  BY <1>1, <1>2, <1>3 DEF PassedOver, spared
<1>4. mode = "run" /\ Goes /\ Ahead(p) /\ runs = 1
  <2>1. ~Fleet!Again
    BY DEF Fleet!Again, First
  <2>2. mode = "run" /\ Goes /\ Ahead(p)
    BY <1>1, <2>1, RunStep DEF HasRead
  <2>3. runs' = runs
    BY <2>2 DEF Goes, Fleet!Enter, Fleet!bounds, Acts, Stores, Breaks
  <2>. QED BY <2>2, <2>3
<1>5. /\ user' = user /\ file' = file
      /\ row' = row \/ \E i \in was : \E v : row' = [row EXCEPT ![i] = v]
      /\ panel' = panel \/ Last
  <2>1. ASSUME NEW i, NEW t, Acts(t, i)
        PROVE  /\ user' = user /\ file' = file
               /\ row' = row \/ \E j \in was : \E v : row' = [row EXCEPT ![j] = v]
               /\ panel' = panel \/ Last
    <3>1. user' = user /\ file' = file /\ t # "panelBack"
      BY <1>4, <2>1, UnreadStays
    <3>2. CASE t \in RowWrites
      <4>1. /\ i \in ServersOf(Course(T)[phase][1])
            /\ phase \in DOMAIN Course(T) /\ LoopDoes(Course(T)[phase], RowWrites)
            /\ row' = [row EXCEPT ![i] = Fleet!RowAfter(t, i)]
        BY <1>4, <2>1, <3>2, RowsSpared
      <4>2. Spares(T, u = vip, phase)
        BY <4>1 DEF PassesOver
      <4>3. i \in was
        BY <1>2, <1>3, <4>1, <4>2 DEF Spares
      <4>4. panel' = panel
        BY <2>1, <3>2 DEF Acts, Stores, RowWrites
      <4>. QED BY <3>1, <4>1, <4>3, <4>4
    <3>3. CASE t \notin RowWrites
      <4>1. row' = row
        BY <2>1, <3>3, SameWrites DEF Acts, Succeeds, Effects
      <4>2. t = "panel" => Last
        <5>1. t = "panel" => Does(Course(T), {"panel"})
          BY <1>4, <2>1, RunsAt DEF Acts, Succeeds
        <5>. QED BY <5>1 DEF PassesOver
      <4>3. panel' = panel \/ Last
        BY <2>1, <3>1, <4>2 DEF Acts, Stores
      <4>. QED BY <3>1, <4>1, <4>3
    <3>. QED BY <3>2, <3>3
  <2>. QED BY <1>4, <2>1 DEF Goes, Fleet!Enter, Fleet!world, Breaks, Throws
<1>6. FirstBody(u) /\ \A i \in Servers \ was : row[i] = origin.row[i]
  BY <1>3, <1>4, <1>5 DEF PassedOver, spared
<1>7. FirstBody(u)'
  BY <1>1, <1>5, <1>6 DEF FirstBody, WasOn
<1>8. \A i \in Servers \ was : row'[i] = origin.row[i]
  BY <1>5, <1>6, SMTT(30) DEF Shape
<1>. QED BY <1>7, <1>8

-----------------------------------------------------------------------------
(* Clients that are not chosen *)

\* A script that reads the clients again works on all of them.
LEMMA ReadsAgain ==
    ASSUME Placing, Shape, NEW p, Ordered(p), Traces(p), HasRead(p), NEW i, Fleet!Now("users", i)
    PROVE  /\ T.who = "all" /\ Fleet!Selected(user) = Fleet!Selected(seen)
           /\ \A k \in DOMAIN Course(T) : Course(T)[k][1] \notin {"changed", "relisted"}
<1>1. ~ReadOnce(T, p)
  BY ReadsOnce
<1>2. /\ T.who = "all"
      /\ \A k \in DOMAIN Course(T) : Course(T)[k][1] \notin {"changed", "relisted"}
  BY <1>1 DEF Ordered, ReadsFirst
<1>3. Fleet!Selected(user) = Fleet!Selected(seen)
  BY <1>2, SelectedDescend DEF Traces, Placing
<1>. QED BY <1>2, <1>3

\* Those whom it works on stay the same.
LEMMA SameSelected ==
    ASSUME Placing, Shape, NEW p, Ordered(p), EmptyStays(p), Traces(p), HasRead(p), Fleet!Next,
           \/ UNCHANGED seen
           \/ \E i : Acts("users", i)
    PROVE  Fleet!Selected(seen)' = Fleet!Selected(seen)
<1>1. UNCHANGED script /\ (T.who = "empty" => UNCHANGED row)
  BY StepIs, EmptyNext DEF EmptyStays, T
<1>2. PICK us : us = seen'
  OBVIOUS
<1>3. Fleet!Selected(us)' = Fleet!Selected(us)
  BY <1>1, SelectedStays
<1>4. Fleet!Selected(seen)' = Fleet!Selected(us)'
  BY <1>2
<1>5. Fleet!Selected(us) = Fleet!Selected(seen)
  <2>1. CASE UNCHANGED seen
    BY <1>2, <2>1
  <2>2. ASSUME NEW i, Acts("users", i) PROVE Fleet!Selected(us) = Fleet!Selected(seen)
    <3>1. us = user /\ Fleet!Now("users", i)
      BY <1>2, <2>2 DEF Acts, Succeeds, Effects
    <3>. QED BY <3>1, ReadsAgain
  <2>. QED BY <2>1, <2>2
<1>. QED BY <1>3, <1>4, <1>5

LEMMA SelectsNext ==
    ASSUME Placing, Shape, NEW p, Ordered(p), EmptyStays(p), Traces(p), Selects(p), Fleet!Next
    PROVE  Selects(p)'
<1>1. UNCHANGED <<script, origin>> /\ Certain(T.before, p, "users") /\ script \in DOMAIN Scripts /\ T' = T
  BY StepIs DEF Ordered, ReadsFirst, Placing, T
<1> SUFFICES ASSUME HasRead(p)' PROVE Selects(p)'
  BY DEF Selects
<1>2. mode' = "run" /\ ~Ahead(p)'
  BY DEF HasRead
<1> DEFINE Keeps == /\ left' # {} /\ (Fleet!Over)' \in SelectedLoops => left' \subseteq Fleet!Selected(seen)'
           Unlisted == \A u \in Clients : u \notin Fleet!Selected(seen)' \/ NoneListed' => user'[u] = seen'[u]
<1>3. SUFFICES Keeps /\ Unlisted
  BY DEF Selects
<1>4. CASE mode = "run" /\ Ahead(p) /\ HasRead(p)' /\ phase = p[1] /\ \E i \in Items : Acts("users", i)
  <2>1. PICK i \in Items : Acts("users", i)
    BY <1>4
  <2>2. Fleet!Now("users", i) /\ Fleet!Advance(i) /\ seen' = user /\ user' = user
    BY <2>1 DEF Acts, Succeeds, Effects
  <2>3. Fleet!Over = "once"
    BY <1>1, <1>4, <2>2, RunsAt, ReadsAt
  <2>4. left' # {} => (Fleet!Over)' = "once"
    BY <1>1, <1>2, <1>4, <2>2, <2>3, SameLoop
  <2>. QED BY <2>2, <2>4 DEF SelectedLoops
<1>5. CASE HasRead(p) /\ HasRead(p)' /\ Goes
  <2> DEFINE Z == Fleet!Selected(seen)
  <2>1. /\ left # {} /\ Fleet!Over \in SelectedLoops => left \subseteq Z
        /\ \A u \in Clients : u \notin Z \/ NoneListed => user[u] = seen[u]
    BY <1>5 DEF Selects
  <2>2. ASSUME UNCHANGED seen \/ \E i : Acts("users", i) PROVE Fleet!Selected(seen)' = Z
    BY <1>5, <2>2, SameSelected
  <2> HIDE DEF Z
  <2>3. CASE Fleet!Enter
    <3>1. UNCHANGED <<user, seen>> /\ mode = "run" /\ phase \in Nat
      BY <1>1, <1>5, <2>3 DEF Fleet!Enter, Fleet!world, Fleet!reads, HasRead, Placing, Fleet!Running
    <3>2. Fleet!Selected(seen)' = Z
      BY <2>2, <3>1
    <3>3. phase' = phase + 1 /\ left' = Fleet!Items(Head(Fleet!Plan[phase + 1]))
      BY <1>2, <2>3, <3>1 DEF Fleet!Enter, Fleet!Leave
    <3>4. (Fleet!Plan)' = Fleet!Plan
      BY <1>1, <1>2, <3>1 DEF Fleet!Plan, Fleet!S
    <3>5. (Fleet!Over)' = Head(Fleet!Plan[phase + 1])
      BY <3>3, <3>4 DEF Fleet!Over
    <3>6. Keeps
      <4>1. (Fleet!Over)' \in SelectedLoops => left' \subseteq Z
        BY <3>3, <3>5 DEF SelectedLoops, Fleet!Items, Z
      <4>. QED BY <3>2, <4>1
    <3>7. NoneListed' => NoneListed
      <4>1. 1..phase \subseteq 1..phase + 1
        BY <3>1
      <4>. QED BY <3>3, <3>4, <4>1 DEF NoneListed
    <3>. QED BY <2>1, <3>1, <3>2, <3>6, <3>7
  <2>4. ASSUME NEW i \in Items, NEW t, Fleet!Now(t, i), Fleet!Advance(i) \/ Fleet!Raise(i)
        PROVE  /\ left' # {} => left' \subseteq left /\ left # {} /\ (Fleet!Over)' = Fleet!Over
               /\ phase' = phase /\ (Fleet!Plan)' = Fleet!Plan
    <3>1. mode' = mode
      BY <1>2, <1>5 DEF HasRead
    <3>2. phase' = phase
      BY <1>2, <2>4 DEF Fleet!Advance, Fleet!Raise, Fleet!Leave
    <3>3. (Fleet!Plan)' = Fleet!Plan
      BY <1>1, <3>1 DEF Fleet!Plan, Fleet!S
    <3>. QED BY <1>1, <2>4, <3>1, <3>2, <3>3, SameLoop
  <2>5. ASSUME NEW i \in Items, NEW t, Breaks(t, i) PROVE Keeps /\ Unlisted
    <3>1. Fleet!Now(t, i) /\ Fleet!Raise(i) /\ UNCHANGED <<user, seen>>
      BY <2>5 DEF Breaks, Throws
    <3>2. Fleet!Selected(seen)' = Z
      BY <2>2, <3>1
    <3>3. NoneListed' => NoneListed
      BY <2>4, <3>1 DEF NoneListed
    <3>. QED BY <2>1, <2>4, <3>1, <3>2, <3>3
  <2>6. ASSUME NEW i \in Items, NEW t, Acts(t, i) PROVE Keeps /\ Unlisted
    <3>1. Fleet!Now(t, i) /\ Fleet!Advance(i) /\ Effects(t, i)
      BY <2>6 DEF Acts, Succeeds
    <3>2. Fleet!Selected(seen)' = Z
      <4>1. UNCHANGED seen \/ t = "users"
        BY <3>1 DEF Effects
      <4>. QED BY <2>2, <2>6, <4>1
    <3>3. Keeps
      BY <2>1, <2>4, <3>1, <3>2
    <3>4. CASE t = "users"
      BY <3>1, <3>3, <3>4 DEF Effects
    <3>5. CASE t = "list"
      <4>1. i \in Z /\ LoopDoes(Course(T)[phase], {"list"})
        BY <3>1, <3>5, AtList DEF Z
      <4>2. ~NoneListed'
        <5>1. Fleet!Plan = Course(T) /\ phase \in 1..Len(Course(T)) /\ phase \in Nat
          BY <1>1, <1>5, <3>1, LoopsAre, RunsAt DEF HasRead, Fleet!Running
        <5>2. phase \in 1..phase'
          BY <2>4, <3>1, <5>1
        <5>. QED BY <2>4, <3>1, <4>1, <5>1, <5>2 DEF NoneListed
      <4>3. seen' = seen /\ \A u \in Clients : u # i => user'[u] = user[u]
        BY <3>1, <3>5 DEF Effects, Shape
      <4>. QED BY <2>1, <3>2, <3>3, <4>1, <4>2, <4>3
    <3>6. CASE t \notin {"users", "list"}
      <4>1. t # "listBack"
        <5>1. t = "listBack" => Does(Course(T), {"listBack", "fileBack", "panelBack"})
          BY <1>5, <3>1, RunsAt DEF HasRead
        <5>. QED BY <5>1 DEF Ordered, ReadsFirst
      <4>2. UNCHANGED <<user, seen>>
        BY <3>1, <3>6, <4>1 DEF Effects
      <4>3. NoneListed' => NoneListed
        BY <2>4, <3>1 DEF NoneListed
      <4>. QED BY <2>1, <3>2, <3>3, <4>2, <4>3
    <3>. QED BY <3>4, <3>5, <3>6
  <2>. QED BY <1>5, <2>3, <2>5, <2>6 DEF Goes
<1>. QED BY <1>1, <1>2, <1>4, <1>5, RunStep DEF HasRead

-----------------------------------------------------------------------------
(* What is still to be done *)

\* A step after the clients are read.
GoesOn(p) == HasRead(p) /\ HasRead(p)' /\ Fleet!Next

LEMMA GoingOn ==
    ASSUME Placing, Shape, NEW p, Ordered(p), GoesOn(p)
    PROVE  /\ UNCHANGED <<script, origin>> /\ T' = T /\ script \in DOMAIN Scripts
           /\ mode = "run" /\ mode' = "run" /\ mode \in Fleet!Running
           /\ Fleet!Plan = Course(T) /\ (Fleet!Plan)' = Course(T)
           /\ phase \in Nat /\ p[1] \in Nat /\ phase >= p[1]
           /\ p[1] \in 1..Len(Course(T)) /\ Course(T)[p[1]][1] = "once"
           /\ Fleet!Enter => /\ left = {} /\ phase' = phase + 1
                             /\ left' = Fleet!Items(Course(T)[phase + 1][1])
                             /\ UNCHANGED <<user, row, file, panel, seen, prev, listed, applied, saved, failing, runs>>
           /\ \A i, t : Fleet!Now(t, i) /\ Fleet!Advance(i) => phase' = phase /\ left # {} /\ i \in left
<1>1. UNCHANGED <<script, origin>> /\ T' = T /\ script \in DOMAIN Scripts /\ mode = "run" /\ mode' = "run"
      /\ mode \in Fleet!Running
  <2>1. UNCHANGED <<script, origin>>
    BY StepIs DEF GoesOn
  <2>2. T' = T
    BY <2>1 DEF T
  <2>3. mode = "run" /\ mode' = "run"
    BY DEF GoesOn, HasRead
  <2>4. script \in DOMAIN Scripts
    BY DEF Placing
  <2>5. mode \in Fleet!Running
    BY <2>3 DEF Fleet!Running
  <2>. QED BY <2>1, <2>2, <2>3, <2>4, <2>5
<1>2. Fleet!Plan = Course(T) /\ (Fleet!Plan)' = Course(T)
  <2>1. (Fleet!Plan)' = Fleet!Plan
    BY <1>1 DEF Fleet!Plan, Fleet!S
  <2>. QED BY <1>1, <2>1, LoopsAre
<1>3. /\ phase \in Nat /\ p[1] \in Nat /\ p[1] \in 1..Len(Course(T)) /\ Course(T)[p[1]][1] = "once"
  BY <1>1, ReadsAt DEF Ordered, ReadsFirst, Placing
<1>4. phase >= p[1]
  BY <1>1, <1>3 DEF GoesOn, HasRead, Ahead
<1>5. ASSUME Fleet!Enter
      PROVE  /\ left = {} /\ phase' = phase + 1
             /\ left' = Fleet!Items(Course(T)[phase + 1][1])
             /\ UNCHANGED <<user, row, file, panel, seen, prev, listed, applied, saved, failing, runs>>
  <2>1. /\ left = {} /\ phase' = phase + 1 /\ left' = Fleet!Items(Head(Course(T)[phase + 1]))
        /\ phase # Len(Course(T))
    BY <1>1, <1>2, <1>5 DEF Fleet!Enter, Fleet!Leave
  <2>2. UNCHANGED <<user, row, file, panel, seen, prev, listed, applied, saved, failing, runs>>
    BY <1>5 DEF Fleet!Enter, Fleet!world, Fleet!reads, Fleet!notes, Fleet!bounds
  <2>3. phase + 1 \in 1..Len(Course(T))
    <3>1. phase \in 0..Len(Fleet!Plan)
      BY <1>1 DEF Placing
    <3>2. Len(Course(T)) \in Nat
      BY <1>1, ScriptIs
    <3>. QED BY <1>2, <2>1, <3>1, <3>2
  <2>4. Course(T)[phase + 1] \in Seq(STRING) /\ Len(Course(T)[phase + 1]) >= 2
    BY <1>1, <2>3, ScriptIs
  <2>5. Head(Course(T)[phase + 1]) = Course(T)[phase + 1][1]
    BY <2>4
  <2>. QED BY <2>1, <2>2, <2>5
<1>6. \A i, t : Fleet!Now(t, i) /\ Fleet!Advance(i) => phase' = phase /\ left # {} /\ i \in left
  BY DEF Fleet!Now, Fleet!Advance
<1>. QED BY <1>1, <1>2, <1>3, <1>4, <1>5, <1>6

\* Its loops over clients come to the same clients.
LEMMA SameClients ==
    ASSUME Placing, Shape, NEW p, Ordered(p), EmptyStays(p), Traces(p), GoesOn(p),
           UNCHANGED seen \/ \E i : Acts("users", i)
    PROVE  \A over \in ClientLoops : Fleet!Items(over)' = Fleet!Items(over)
<1>1. UNCHANGED <<script, origin>> /\ script \in DOMAIN Scripts
  BY GoingOn
<1>2. Fleet!Selected(seen)' = Fleet!Selected(seen)
  BY SameSelected DEF GoesOn
<1>3. Fleet!Known(seen)' = Fleet!Known(seen)
  <2>1. CASE UNCHANGED seen
    BY <2>1 DEF Fleet!Known
  <2>2. ASSUME NEW i, Acts("users", i) PROVE Fleet!Known(seen)' = Fleet!Known(seen)
    <3>1. seen' = user
      BY <2>2 DEF Acts, Succeeds, Effects
    <3>2. \A u \in Clients : user[u] # None <=> seen[u] # None
      BY DEF Traces, AllDescend, Descends, GoesOn
    <3>. QED BY <3>1, <3>2 DEF Fleet!Known
  <2>. QED BY <2>1, <2>2
<1>4. ASSUME "changed" \in ClientLoops PROVE Fleet!Items("changed")' = Fleet!Items("changed")
  <2>1. PICK k \in DOMAIN Course(T) : Course(T)[k][1] = "changed"
    BY <1>4 DEF ClientLoops
  <2>2. T.pick = "all"
    BY <2>1 DEF Ordered, ReadsFirst
  <2>3. seen' = seen
    BY <2>1, ReadsAgain DEF GoesOn, Acts, Succeeds
  <2>4. PICK was : was = seen
    OBVIOUS
  <2>5. \A u : Fleet!After(u, was[u])' = Fleet!After(u, was[u])
    BY <1>1, <2>2, AfterStays
  <2>6. \A u : Fleet!After(u, seen[u])' = Fleet!After(u, seen[u])
    BY <2>3, <2>4, <2>5
  <2>. QED BY <1>2, <2>3, <2>6 DEF Fleet!Items
<1>5. \A over \in {"users", "caught", "vip"} : Fleet!Items(over)' = Fleet!Items(over)
  BY <1>2, <1>3 DEF Fleet!Items
<1>. QED BY <1>4, <1>5 DEF ClientLoops

\* The loops are the same.
LEMMA SameDue ==
    ASSUME UNCHANGED script, NEW u, NEW ss
    PROVE  \A overs : overs = ClientLoops /\ Due(u, ss, overs)' => Due(u, ss, ClientLoops)'
<1>1. ClientLoops' = ClientLoops
  BY DEF ClientLoops, T
<1>. QED BY <1>1 DEF Due, Here, Later

\* What is due stays due until it is done.
LEMMA DueStays ==
    ASSUME Placing, Shape, NEW p, Ordered(p), EmptyStays(p), Traces(p), GoesOn(p),
           NEW u \in Clients, NEW ss, Due(u, ss, ClientLoops),
           Fleet!Enter \/ \E i \in Items : \E t : Acts(t, i) /\ (t \notin ss \/ u # i)
    PROVE  Due(u, ss, ClientLoops)'
<1>1. UNCHANGED <<script, origin>> /\ script \in DOMAIN Scripts /\ mode \in Fleet!Running
  BY GoingOn
<1>2. PICK overs : overs = ClientLoops
  OBVIOUS
<1>3. UNCHANGED seen \/ \E i : Acts("users", i)
  BY DEF Fleet!Enter, Fleet!reads, Acts, Succeeds, Effects
<1>4. \A over \in overs : Fleet!Items(over)' = Fleet!Items(over)
  BY <1>2, <1>3, SameClients
<1>5. Due(u, ss, overs)
  BY <1>2
<1>6. CASE Fleet!Enter
  <2>1. Due(u, ss, overs)'
    BY <1>4, <1>5, <1>6, DueEnters
  <2>. QED BY <1>1, <1>2, <2>1, SameDue
<1>7. ASSUME NEW i \in Items, NEW t, Acts(t, i), t \notin ss \/ u # i
      PROVE  Due(u, ss, ClientLoops)'
  <2>1. Fleet!Now(t, i) /\ Fleet!Advance(i) /\ left # {}
    BY <1>7 DEF Acts, Succeeds, Fleet!Now
  <2>2. u # None /\ (u \in RangeOf(Fleet!Over) => None \notin RangeOf(Fleet!Over))
    BY <1>1, <2>1, OverIs, RangeNone, ClientsAssumption
  <2>3. Due(u, ss, overs)'
    BY <1>1, <1>4, <1>5, <1>7, <2>1, <2>2, DueAdvances
  <2>. QED BY <1>1, <1>2, <2>3, SameDue
<1>. QED BY <1>6, <1>7

\* So do those listed again, and the listing.
LEMMA RelistedStays ==
    ASSUME Placing, Shape, NEW p, Ordered(p), EmptyStays(p), GoesOn(p), UNCHANGED listed,
           NEW u \in Clients, Relisted, Due(u, {"refile"}, {"relisted"}),
           Fleet!Enter \/ \E i \in Items : \E t : Acts(t, i) /\ (t # "refile" \/ u # i)
    PROVE  Relisted' /\ Due(u, {"refile"}, {"relisted"})'
<1>1. /\ UNCHANGED <<script, origin>> /\ T' = T /\ script \in DOMAIN Scripts /\ mode \in Fleet!Running
      /\ phase \in Nat
  BY GoingOn
<1>2. T.who = "empty" => UNCHANGED row
  BY <1>1, EmptyNext DEF EmptyStays, GoesOn
<1>3. Fleet!Items("relisted")' = Fleet!Items("relisted")
  <2>1. PICK us : us = listed
    OBVIOUS
  <2>2. Fleet!Selected(us)' = Fleet!Selected(us)
    BY <1>1, <1>2, SelectedStays
  <2>3. Fleet!Selected(listed)' = Fleet!Selected(us)'
    BY <2>1
  <2>. QED BY <2>1, <2>2, <2>3 DEF Fleet!Items
<1>4. PICK r \in 1..Len(Course(T)) : Course(T)[r] = <<"once", "relist">> /\ (phase > r \/ (phase = r /\ left = {}))
  BY DEF Relisted
<1>5. CASE Fleet!Enter
  <2>1. phase' = phase + 1
    BY <1>5, GoingOn
  <2>2. Due(u, {"refile"}, {"relisted"})'
    BY <1>3, <1>5, DueEnters
  <2>3. phase' > r
    BY <1>1, <1>4, <2>1
  <2>. QED BY <1>1, <1>4, <2>2, <2>3 DEF Relisted
<1>6. ASSUME NEW i \in Items, NEW t, Acts(t, i), t # "refile" \/ u # i
      PROVE  Relisted' /\ Due(u, {"refile"}, {"relisted"})'
  <2>1. Fleet!Now(t, i) /\ Fleet!Advance(i) /\ left # {} /\ phase' = phase
    BY <1>6 DEF Acts, Succeeds, Fleet!Now, Fleet!Advance
  <2>2. u # None /\ (u \in RangeOf(Fleet!Over) => None \notin RangeOf(Fleet!Over))
    BY <1>1, <2>1, OverIs, RangeNone, ClientsAssumption
  <2>3. Due(u, {"refile"}, {"relisted"})'
    BY <1>1, <1>3, <1>6, <2>1, <2>2, DueAdvances
  <2>. QED BY <1>1, <1>4, <2>1, <2>3 DEF Relisted
<1>. QED BY <1>5, <1>6

LEMMA RelistingStays ==
    ASSUME Placing, Shape, NEW p, Ordered(p), GoesOn(p), Relisting,
           Fleet!Enter \/ \E i \in Items : \E t : Acts(t, i) /\ t # "relist"
    PROVE  Relisting'
<1>1. T' = T /\ script \in DOMAIN Scripts /\ phase \in Nat /\ mode = "run"
  BY GoingOn
<1>2. PICK r, k \in 1..Len(Course(T)) :
        /\ r < k /\ Course(T)[r] = <<"once", "relist">>
        /\ Course(T)[k][1] = "relisted" /\ LoopDoes(Course(T)[k], {"refile"})
        /\ phase < r \/ (phase = r /\ left # {})
  BY DEF Relisting
<1>3. CASE Fleet!Enter
  <2>1. phase' = phase + 1 /\ left = {} /\ left' = Fleet!Items(Course(T)[phase + 1][1])
    BY <1>3, GoingOn
  <2>2. CASE phase + 1 = r
    <3>1. Course(T)[phase + 1][1] = "once"
      BY <1>2, <2>2
    <3>2. left' = {None}
      BY <2>1, <3>1 DEF Fleet!Items
    <3>3. phase' = r /\ left' # {}
      BY <2>1, <2>2, <3>2
    <3>. QED BY <1>1, <1>2, <3>3 DEF Relisting
  <2>3. CASE phase + 1 # r
    <3>1. phase' < r
      BY <1>1, <1>2, <2>1, <2>3
    <3>. QED BY <1>1, <1>2, <3>1 DEF Relisting
  <2>. QED BY <2>2, <2>3
<1>4. ASSUME NEW i \in Items, NEW t, Acts(t, i), t # "relist"
      PROVE  Relisting'
  <2>1. Fleet!Now(t, i) /\ phase' = phase
    BY <1>4 DEF Acts, Succeeds, Fleet!Advance
  <2>2. phase # r
    <3> SUFFICES ASSUME phase = r PROVE FALSE
      OBVIOUS
    <3>1. Course(T)[phase][at + 1] = t /\ at + 1 \in 2..Len(Course(T)[phase])
      BY <1>1, <2>1, RunsAt
    <3>2. Len(Course(T)[phase]) = 2 /\ Course(T)[phase][2] = "relist"
      BY <1>2
    <3>3. at + 1 = 2
      BY <3>1, <3>2
    <3>. QED BY <1>4, <3>1, <3>2, <3>3
  <2>. QED BY <1>1, <1>2, <2>1, <2>2 DEF Relisting
<1>. QED BY <1>3, <1>4

-----------------------------------------------------------------------------
(* What is wanted stays, and is there in the end *)

\* Loops of the course, by their statements.
LEMMA LoopOfCourse ==
    ASSUME NEW k \in DOMAIN Course(T), NEW ss, LoopDoes(Course(T)[k], ss)
    PROVE  Does(Course(T), ss)
<1>1. PICK j \in 2..Len(Course(T)[k]) : Course(T)[k][j] \in ss
  BY DEF LoopDoes
<1>2. <<k, j>> \in Places(Course(T))
  BY DEF Places
<1>. QED BY <1>1, <1>2 DEF Does

\* The clients a script works on are there.
LEMMA ReadDoc ==
    ASSUME script \in DOMAIN Scripts, NEW p, Traces(p), HasRead(p), NEW u \in Fleet!Selected(seen)
    PROVE  u \in Clients /\ seen[u] \in Fleet!Doc /\ user[u] \in Fleet!Doc
<1>1. u \in Clients /\ seen[u] # None
  BY SelectedIs
<1>2. Descends(u, seen[u]) /\ Descends(u, user[u])
  BY <1>1 DEF Traces, AllDescend
<1>. QED BY <1>1, <1>2 DEF Descends

\* Nothing but reading the clients, or the servers, changes what is wanted.
LEMMA WantedSame ==
    ASSUME UNCHANGED <<script, seen>>, T.pick = "all" \/ UNCHANGED prev, NEW u
    PROVE  Wanted(u)' = Wanted(u) /\ Lists' = Lists
<1>1. T' = T /\ Lists' = Lists
  BY DEF T, Lists
<1>2. PICK was : was = seen
  OBVIOUS
<1>3. Fleet!After(u, was[u])' = Fleet!After(u, was[u])
  BY AfterStays
<1>4. Fleet!After(u, seen[u])' = Fleet!After(u, was[u])'
  BY <1>2
<1>. QED BY <1>1, <1>2, <1>3, <1>4 DEF Wanted

\* Once every loop that writes lists is over, a client has what is wanted.
LEMMA ListsSettled ==
    ASSUME Placing, NEW p, Selects(p), HasRead(p),
           NEW u \in Fleet!Selected(seen), Lists => ListReady(u),
           \A h \in DOMAIN Course(T) : LoopDoes(Course(T)[h], {"list"}) => h < phase
    PROVE  user[u] = Wanted(u)
<1>1. /\ script \in DOMAIN Scripts /\ mode \in Fleet!Running /\ Fleet!Plan = Course(T)
      /\ DOMAIN Course(T) = 1..Len(Course(T)) /\ Len(Course(T)) \in Nat
      /\ phase \in Nat /\ phase \in 0..Len(Course(T))
  <2>1. script \in DOMAIN Scripts /\ mode = "run" /\ mode \in Fleet!Running
    BY DEF HasRead, Placing, Fleet!Running
  <2>2. Fleet!Plan = Course(T)
    BY <2>1, LoopsAre
  <2>3. phase \in 0..Len(Fleet!Plan)
    BY <2>1 DEF Placing
  <2>. QED BY <2>1, <2>2, <2>3, ScriptIs
<1>2. CASE Lists
  <2>1. CASE Due(u, {"list"}, ClientLoops)
    <3>1. PICK k \in 1..Len(Course(T)) : k >= phase /\ LoopDoes(Course(T)[k], {"list"})
      BY <1>1, <2>1 DEF Due, Here, Later, LoopDoes
    <3>. QED BY <1>1, <3>1
  <2>. QED BY <1>2, <2>1 DEF ListReady
<1>3. CASE ~Lists
  <2>1. NoneListed
    <3> SUFFICES ASSUME NEW k \in 1..phase, LoopDoes(Course(T)[k], {"list"}) PROVE FALSE
      BY <1>1 DEF NoneListed
    <3>1. k \in DOMAIN Course(T)
      BY <1>1
    <3>. QED BY <1>3, <3>1, LoopOfCourse DEF Lists
  <2>2. u \in Clients
    BY <1>1, SelectedIs
  <2>. QED BY <1>3, <2>1, <2>2 DEF Selects, Wanted
<1>. QED BY <1>2, <1>3

\* Reading the clients again makes no difference either.
LEMMA WantedStays ==
    ASSUME Placing, Shape, NEW p, Ordered(p), EmptyStays(p), Traces(p), Selects(p), GoesOn(p),
           NEW u \in Fleet!Selected(seen), Lists => ListReady(u),
           Fleet!Enter \/ \E i \in Items : \E t : Acts(t, i) /\ (t = "servers" => T.pick = "all")
    PROVE  Wanted(u)' = Wanted(u)
<1>1. UNCHANGED script /\ T' = T /\ script \in DOMAIN Scripts /\ HasRead(p)
  BY GoingOn DEF GoesOn
<1>2. CASE UNCHANGED seen /\ (T.pick = "all" \/ UNCHANGED prev)
  BY <1>1, <1>2, WantedSame
<1>3. CASE Fleet!Enter
  BY <1>2, <1>3, GoingOn
<1>4. ASSUME NEW i \in Items, NEW t, Acts(t, i), t = "servers" => T.pick = "all"
      PROVE  Wanted(u)' = Wanted(u)
  <2>1. Fleet!Now(t, i) /\ Effects(t, i)
    BY <1>4 DEF Acts, Succeeds
  <2>2. CASE t # "users"
    BY <1>2, <1>4, <2>1, <2>2 DEF Effects
  <2>3. CASE t = "users"
    <3>1. seen' = user /\ prev' = prev /\ Lists' = Lists
      BY <1>1, <2>1, <2>3 DEF Effects, Lists
    <3>2. \A doc : Fleet!After(u, doc)' = Fleet!After(u, doc)
      BY <1>1, <3>1, AfterStays
    <3>3. PICK now : now = seen'
      OBVIOUS
    <3>4. Wanted(u)' = IF Lists THEN Fleet!After(u, user[u]) ELSE user[u]
      <4>1. Fleet!After(u, now[u])' = Fleet!After(u, now[u])
        BY <3>2
      <4>2. Fleet!After(u, seen[u])' = Fleet!After(u, now[u])'
        BY <3>3
      <4>. QED BY <3>1, <3>3, <4>1, <4>2 DEF Wanted
    <3>5. user[u] = seen[u] \/ (Lists /\ user[u] = Fleet!After(u, seen[u]))
      <4>1. CASE Lists
        BY <4>1 DEF ListReady, Wanted
      <4>2. CASE ~Lists
        <5>1. NoneListed
          <6>1. /\ mode = "run" /\ Fleet!Plan = Course(T) /\ phase \in 1..Len(Course(T))
                /\ DOMAIN Course(T) = 1..Len(Course(T)) /\ Len(Course(T)) \in Nat
            BY <1>1, <2>1, GoingOn, RunsAt, ScriptIs
          <6> SUFFICES ASSUME NEW k \in 1..phase, LoopDoes(Course(T)[k], {"list"}) PROVE FALSE
            BY <6>1 DEF NoneListed
          <6>2. k \in DOMAIN Course(T)
            BY <6>1
          <6>. QED BY <4>2, <6>2, LoopOfCourse DEF Lists
        <5>2. u \in Clients
          BY <1>1, SelectedIs
        <5>. QED BY <1>1, <5>1, <5>2 DEF Selects
      <4>. QED BY <4>1, <4>2
    <3>6. Fleet!After(u, Fleet!After(u, seen[u])) = Fleet!After(u, seen[u])
      BY <1>1, ReadDoc, AfterDoc
    <3>. QED BY <3>4, <3>5, <3>6 DEF Wanted
  <2>. QED BY <2>2, <2>3
<1>. QED BY <1>3, <1>4

-----------------------------------------------------------------------------
(* The lists *)

\* When a script begins, it comes to every client whose list it changes.
LEMMA ListsBegin ==
    ASSUME script \in DOMAIN Scripts, NEW p, Ordered(p), UNCHANGED script,
           mode' = "run", phase' = p[1], Lists,
           NEW u, u \in Fleet!Selected(seen)', user'[u] = seen'[u]
    PROVE  ListReady(u)'
<1>1. T' = T /\ Lists' = Lists /\ (Fleet!Plan)' = Course(T)
  BY DEF T, Lists, Fleet!Plan, Fleet!S, Course
<1>2. PICK k \in p[1] + 1..Len(Course(T)) :
        Course(T)[k][1] \in {"users", "caught", "changed"} /\ LoopDoes(Course(T)[k], {"list"})
  BY DEF Ordered, ReadsFirst, Comes, Lists
<1>3. p[1] \in Nat /\ Len(Course(T)) \in Nat /\ DOMAIN Course(T) = 1..Len(Course(T))
  BY ReadsAt, ScriptIs DEF Ordered, ReadsFirst
<1>4. k > p[1] /\ k \in 1..Len(Course(T)) /\ k \in DOMAIN Course(T)
  BY <1>2, <1>3
<1>5. Fleet!After(u, seen[u])' = seen'[u] => user'[u] = Wanted(u)'
  BY <1>1 DEF Wanted
<1>6. ASSUME Fleet!After(u, seen[u])' # seen'[u] PROVE Later(u, {"list"}, ClientLoops)'
  <2>1. \A over \in {"users", "caught", "changed"} : u \in Fleet!Items(over)'
    BY <1>6 DEF Fleet!Items
  <2>2. Course(T)[k][1] \in ClientLoops'
    BY <1>1, <1>2, <1>4 DEF ClientLoops
  <2>. QED BY <1>1, <1>2, <1>4, <2>1, <2>2 DEF Later
<1>. QED BY <1>5, <1>6 DEF ListReady, Due

\* A step leaves a list as it was read, and still to be written, or as it is wanted.
LEMMA ListsReady ==
    ASSUME Placing, Shape, NEW p, Ordered(p), EmptyStays(p), Traces(p), Selects(p), GoesOn(p),
           Lists, NEW u \in Fleet!Selected(seen), ListReady(u),
           Fleet!Enter \/ \E i \in Items : \E t : Acts(t, i)
    PROVE  ListReady(u)'
<1>1. /\ UNCHANGED script /\ T' = T /\ script \in DOMAIN Scripts /\ HasRead(p) /\ mode = "run" /\ mode' = "run"
      /\ phase \in Nat /\ p[1] \in Nat /\ phase >= p[1] /\ u \in Clients
  BY GoingOn, SelectedIs DEF GoesOn
<1>2. CASE Fleet!Enter
  <2>1. UNCHANGED <<user, seen>>
    BY <1>2, GoingOn
  <2>2. Wanted(u)' = Wanted(u)
    BY <1>2, WantedStays
  <2>3. Due(u, {"list"}, ClientLoops) => Due(u, {"list"}, ClientLoops)'
    BY <1>1, <1>2, DueStays
  <2>. QED BY <2>1, <2>2, <2>3 DEF ListReady
<1>3. ASSUME NEW i \in Items, NEW t, Acts(t, i) PROVE ListReady(u)'
  <2>1. Fleet!Now(t, i) /\ Fleet!Advance(i) /\ Effects(t, i) /\ phase' = phase
    BY <1>3 DEF Acts, Succeeds, Fleet!Advance
  <2>2. t # "listBack"
    <3>1. t = "listBack" => Does(Course(T), {"listBack", "fileBack", "panelBack"})
      BY <1>1, <2>1, RunsAt
    <3>. QED BY <3>1 DEF Ordered, ReadsFirst
  <2>3. CASE t = "servers" /\ T.pick # "all"
    <3>1. UNCHANGED <<user, seen>>
      BY <2>1, <2>3 DEF Effects
    <3>2. phase = p[1]
      <4>1. phase \in DOMAIN Course(T) /\ LoopDoes(Course(T)[phase], {"servers"})
        BY <1>1, <2>1, <2>3, RunsAt
      <4>2. phase <= p[1]
        BY <2>3, <4>1 DEF Ordered, ReadsFirst
      <4>. QED BY <1>1, <4>2
    <3>3. NoneListed
      <4>1. Fleet!Plan = Course(T) /\ phase \in 1..Len(Course(T)) /\ DOMAIN Course(T) = 1..Len(Course(T))
            /\ Len(Course(T)) \in Nat
        BY <1>1, <2>1, GoingOn, RunsAt, ScriptIs
      <4> SUFFICES ASSUME NEW k \in 1..phase, LoopDoes(Course(T)[k], {"list"}) PROVE FALSE
        BY <4>1 DEF NoneListed
      <4>2. k \in DOMAIN Course(T) /\ k <= p[1]
        BY <3>2, <4>1
      <4>3. LoopDoes(Course(T)[k], {"list"} \cup FileWrites)
        BY DEF LoopDoes
      <4>. QED BY <1>1, <3>2, <4>1, <4>2, <4>3 DEF Ordered, ReadsFirst
    <3>4. user[u] = seen[u]
      BY <1>1, <3>3 DEF Selects
    <3>5. u \in Fleet!Selected(seen)'
      BY <1>1, <3>1, SameSelected DEF GoesOn
    <3>. QED BY <1>1, <2>1, <3>1, <3>2, <3>4, <3>5, ListsBegin
  <2>4. CASE t = "servers" => T.pick = "all"
    <3>1. Wanted(u)' = Wanted(u)
      BY <1>3, <2>4, WantedStays
    <3>2. CASE t = "list" /\ i = u
      <4>1. user'[u] = Fleet!After(u, seen[u])
        BY <1>1, <2>1, <3>2 DEF Effects, Shape
      <4>. QED BY <3>1, <4>1 DEF ListReady, Wanted
    <3>3. CASE t # "list" \/ i # u
      <4>1. user'[u] = user[u] /\ (seen' = seen \/ seen' = user)
        <5>1. user' = user \/ (t = "list" /\ user' = [user EXCEPT ![i] = Fleet!After(i, seen[i])])
          BY <2>1, <2>2 DEF Effects
        <5>2. seen' = seen \/ seen' = user
          BY <2>1 DEF Effects
        <5>. QED BY <1>1, <3>3, <5>1, <5>2 DEF Shape
      <4>2. Due(u, {"list"}, ClientLoops) => Due(u, {"list"}, ClientLoops)'
        BY <1>1, <1>3, <3>3, DueStays
      <4>. QED BY <3>1, <4>1, <4>2 DEF ListReady
    <3>. QED BY <3>2, <3>3
  <2>. QED BY <2>3, <2>4
<1>. QED BY <1>2, <1>3

-----------------------------------------------------------------------------
(* The clients listed again *)

\* Files are made of them if they are listed again once, after their lists.
LEMMA RelistIs ==
    ASSUME script \in DOMAIN Scripts, NEW p, Ordered(p), MakesFiles, Does(Course(T), {"refile"})
    PROVE  \E r \in Places(Course(T)) :
             /\ Course(T)[r[1]][r[2]] = "relist" /\ Course(T)[r[1]][1] = "once" /\ Earlier(p, r)
             /\ r[1] \in 1..Len(Course(T)) /\ r[2] \in 2..Len(Course(T)[r[1]]) /\ r[1] \in Nat /\ r[2] \in Nat
             /\ \A h \in DOMAIN Course(T) : LoopDoes(Course(T)[h], {"list"}) => h < r[1]
             /\ \A q \in Places(Course(T)) : Course(T)[q[1]][q[2]] = "relist" => q = r
             /\ \A k \in DOMAIN Course(T) : LoopDoes(Course(T)[k], {"refile"}) => r[1] < k
<1>1. \A k \in DOMAIN Course(T) : LoopDoes(Course(T)[k], {"refile"}) =>
        \E r \in Places(Course(T)) :
             /\ Course(T)[r[1]][r[2]] = "relist" /\ Course(T)[r[1]][1] = "once"
             /\ Earlier(p, r) /\ r[1] < k
             /\ \A h \in DOMAIN Course(T) : LoopDoes(Course(T)[h], {"list"}) => h < r[1]
             /\ \A q \in Places(Course(T)) : Course(T)[q[1]][q[2]] = "relist" => q = r
  BY DEF Ordered, FilesAreMade
<1>2. PICK q \in Places(Course(T)) : Course(T)[q[1]][q[2]] = "refile"
  BY DEF Does
<1>3. Course(T) \in Seq(Seq(STRING)) /\ DOMAIN Course(T) = 1..Len(Course(T))
      /\ \A k \in 1..Len(Course(T)) : Len(Course(T)[k]) \in Nat
  BY ScriptIs
<1>4. q[1] \in DOMAIN Course(T) /\ LoopDoes(Course(T)[q[1]], {"refile"})
  BY <1>2, <1>3, PlacesAre DEF LoopDoes
<1>5. PICK r \in Places(Course(T)) :
             /\ Course(T)[r[1]][r[2]] = "relist" /\ Course(T)[r[1]][1] = "once" /\ Earlier(p, r)
             /\ \A h \in DOMAIN Course(T) : LoopDoes(Course(T)[h], {"list"}) => h < r[1]
             /\ \A s \in Places(Course(T)) : Course(T)[s[1]][s[2]] = "relist" => s = r
  BY <1>1, <1>4
<1>6. \A k \in DOMAIN Course(T) : LoopDoes(Course(T)[k], {"refile"}) => r[1] < k
  BY <1>1, <1>5
<1>7. r[1] \in 1..Len(Course(T)) /\ r[2] \in 2..Len(Course(T)[r[1]])
  BY <1>3, PlacesAre
<1>8. r[1] \in Nat /\ r[2] \in Nat
  BY <1>3, <1>7
<1>. QED BY <1>5, <1>6, <1>7, <1>8

\* It is still to come until it is there.
LEMMA RelistAhead ==
    ASSUME Placing, Shape, NEW p, Ordered(p), GoesOn(p), NEW r,
           r[1] \in 1..Len(Course(T)), r[2] \in 2..Len(Course(T)[r[1]]),
           Course(T)[r[1]][r[2]] = "relist", Course(T)[r[1]][1] = "once", Ahead(r),
           Fleet!Enter \/ \E i \in Items : \E t : Acts(t, i) /\ t # "relist"
    PROVE  Ahead(r)'
<1>1. /\ script \in DOMAIN Scripts /\ mode = "run" /\ mode' = "run" /\ phase \in Nat
  BY GoingOn
<1>2. r[1] \in Nat /\ r[2] \in Nat /\ r[2] > 1 /\ Len(Course(T)[r[1]]) \in Nat
  BY <1>1, ScriptIs
<1>3. phase < r[1] \/ (phase = r[1] /\ left # {} /\ at < r[2])
  BY DEF Ahead
<1>4. CASE Fleet!Enter
  <2>1. phase' = phase + 1 /\ left = {} /\ left' = Fleet!Items(Course(T)[phase + 1][1])
    BY <1>4, GoingOn
  <2>2. at' = 1
    <3>1. at = 1
      BY <2>1 DEF Placing
    <3>. QED BY <3>1, <1>4 DEF Fleet!Enter, Fleet!Leave
  <2>3. CASE phase + 1 = r[1]
    <3>1. left' = {None}
      BY <2>1, <2>3 DEF Fleet!Items
    <3>2. left' # {}
      BY <3>1
    <3>. QED BY <1>1, <1>2, <2>1, <2>2, <2>3, <3>2 DEF Ahead
  <2>4. CASE phase + 1 # r[1]
    <3>1. phase' < r[1]
      BY <1>1, <1>2, <1>3, <2>1, <2>4
    <3>. QED BY <1>1, <3>1 DEF Ahead
  <2>. QED BY <2>3, <2>4
<1>5. ASSUME NEW i \in Items, NEW t, Acts(t, i), t # "relist" PROVE Ahead(r)'
  <2>1. Fleet!Now(t, i) /\ Fleet!Advance(i) /\ phase' = phase
    BY <1>5 DEF Acts, Succeeds, Fleet!Advance
  <2>2. CASE phase < r[1]
    BY <1>1, <2>1, <2>2 DEF Ahead
  <2>3. CASE phase = r[1] /\ left # {} /\ at < r[2]
    <3>1. Course(T)[phase][at + 1] = t /\ at \in Nat /\ Len(Fleet!Do) = Len(Course(T)[phase]) - 1
      BY <1>1, <2>1, RunsAt
    <3>2. at + 1 # r[2]
      BY <1>5, <2>3, <3>1
    <3>3. at + 1 < r[2] /\ at # Len(Fleet!Do)
      BY <1>2, <2>3, <3>1, <3>2
    <3>4. left' = left /\ at' = at + 1
      BY <2>1, <3>3 DEF Fleet!Advance
    <3>. QED BY <1>1, <2>1, <2>3, <3>3, <3>4 DEF Ahead
  <2>. QED BY <1>3, <2>2, <2>3
<1>. QED BY <1>4, <1>5

\* A client listed again is one who has what is wanted.
LEMMA ListedStays ==
    ASSUME Placing, Shape, NEW p, Ordered(p), EmptyStays(p), Traces(p), Selects(p), GoesOn(p),
           MakesFiles, Does(Course(T), {"refile"}),
           NEW u \in Fleet!Selected(seen), Lists => ListReady(u), ListedReady(u),
           Fleet!Enter \/ \E i \in Items : \E t : Acts(t, i)
    PROVE  ListedReady(u)'
<1>1. /\ UNCHANGED script /\ T' = T /\ script \in DOMAIN Scripts /\ HasRead(p) /\ mode = "run" /\ mode' = "run"
      /\ phase \in Nat /\ p[1] \in Nat /\ phase >= p[1] /\ u \in Clients
  BY GoingOn, SelectedIs DEF GoesOn
<1>2. PICK r \in Places(Course(T)) :
        /\ Course(T)[r[1]][r[2]] = "relist" /\ Course(T)[r[1]][1] = "once" /\ Earlier(p, r)
        /\ r[1] \in 1..Len(Course(T)) /\ r[2] \in 2..Len(Course(T)[r[1]]) /\ r[1] \in Nat /\ r[2] \in Nat
        /\ \A h \in DOMAIN Course(T) : LoopDoes(Course(T)[h], {"list"}) => h < r[1]
        /\ \A q \in Places(Course(T)) : Course(T)[q[1]][q[2]] = "relist" => q = r
  BY <1>1, RelistIs
<1>3. SUFFICES ASSUME ~Ahead(r)' PROVE listed'[u] = Wanted(u)'
  <2>1. Course(T)' = Course(T)
    BY <1>1
  <2>2. \A q \in Places(Course(T)) : Course(T)[q[1]][q[2]] = "relist" => q = r
    BY <1>2
  <2>3. (~Ahead(r)' => listed'[u] = Wanted(u)') => ListedReady(u)'
    BY <2>1, <2>2 DEF ListedReady
  <2>. QED BY <2>3
<1>4. ~Ahead(r) => listed[u] = Wanted(u)
  BY <1>2 DEF ListedReady
<1>5. CASE Fleet!Enter
  <2>1. UNCHANGED listed /\ Wanted(u)' = Wanted(u)
    BY <1>5, GoingOn, WantedStays
  <2>2. ~Ahead(r)
    BY <1>2, <1>3, <1>5, RelistAhead
  <2>. QED BY <1>4, <2>1, <2>2
<1>6. ASSUME NEW i \in Items, NEW t, Acts(t, i) PROVE listed'[u] = Wanted(u)'
  <2>1. Fleet!Now(t, i) /\ Fleet!Advance(i) /\ Effects(t, i) /\ Stores(t, i) /\ phase' = phase
    BY <1>6 DEF Acts, Succeeds, Fleet!Advance
  <2>2. CASE t = "relist"
    <3>1. <<phase, at + 1>> \in Places(Course(T)) /\ Course(T)[phase][at + 1] = "relist"
      BY <1>1, <2>1, <2>2, RunsAt
    <3>2. r = <<phase, at + 1>>
      BY <1>2, <3>1
    <3>3. user[u] = Wanted(u)
      <4>1. \A h \in DOMAIN Course(T) : LoopDoes(Course(T)[h], {"list"}) => h < phase
        BY <1>2, <3>2
      <4>. QED BY <1>1, <4>1, ListsSettled
    <3>4. Wanted(u)' = Wanted(u)
      BY <1>6, <2>2, WantedStays
    <3>5. listed' = user
      BY <2>1, <2>2 DEF Stores
    <3>. QED BY <3>3, <3>4, <3>5
  <2>3. CASE t # "relist"
    <3>1. listed' = listed /\ ~Ahead(r)
      <4>1. listed' = listed
        BY <2>1, <2>3 DEF Stores
      <4>2. ~Ahead(r)
        BY <1>2, <1>3, <1>6, <2>3, RelistAhead
      <4>. QED BY <4>1, <4>2
    <3>2. CASE t = "servers" => T.pick = "all"
      <4>1. Wanted(u)' = Wanted(u)
        BY <1>6, <3>2, WantedStays
      <4>. QED BY <1>4, <3>1, <4>1
    <3>3. CASE t = "servers" /\ T.pick # "all"
      <4>1. phase = p[1]
        <5>1. phase \in DOMAIN Course(T) /\ LoopDoes(Course(T)[phase], {"servers"})
          BY <1>1, <2>1, <3>3, RunsAt
        <5>2. phase <= p[1]
          BY <3>3, <5>1 DEF Ordered, ReadsFirst
        <5>. QED BY <1>1, <5>2
      <4>2. CASE Lists
        <5>1. PICK k \in p[1] + 1..Len(Course(T)) : LoopDoes(Course(T)[k], {"list"})
          BY <4>2 DEF Ordered, ReadsFirst, Comes, Lists
        <5>2. k > p[1] /\ k \in DOMAIN Course(T) /\ k \in Nat
          BY <1>1, <5>1, ScriptIs
        <5>3. phase' < r[1]
          BY <1>1, <1>2, <2>1, <4>1, <5>1, <5>2
        <5>4. Ahead(r)'
          BY <1>1, <5>3 DEF Ahead
        <5>. QED BY <1>3, <5>4
      <4>3. CASE ~Lists
        <5>1. ~Lists' /\ seen' = seen
          BY <1>1, <2>1, <3>3, <4>3 DEF Lists, Effects
        <5>. QED BY <1>4, <3>1, <4>3, <5>1 DEF Wanted
      <4>. QED BY <4>2, <4>3
    <3>. QED BY <3>2, <3>3
  <2>. QED BY <2>2, <2>3
<1>. QED BY <1>5, <1>6

-----------------------------------------------------------------------------
(* The files *)

Filed == file = [u \in Clients |-> file[u]]

LEMMA FiledNext ==
    ASSUME Placing, Filed, Fleet!Next
    PROVE  Filed'
<1>1. CASE UNCHANGED file
  BY <1>1 DEF Filed
<1>2. CASE Fleet!Enter \/ Fleet!Kill \/ Fleet!Again
  BY <1>1, <1>2 DEF Fleet!Enter, Fleet!Kill, Fleet!Again, Fleet!world
<1>3. ASSUME NEW i, NEW t, Acts(t, i) PROVE Filed'
  <2>1. file' = file \/ \E body : file' = [file EXCEPT ![i] = body]
    BY <1>3 DEF Acts, Stores
  <2>. QED BY <2>1 DEF Filed
<1>. QED BY <1>1, <1>2, <1>3, StepIs

\* What a file is made of, and when it is right.
LEMMA BodyStays ==
    ASSUME UNCHANGED <<row, panel>>, NEW doc
    PROVE  Fleet!Body(doc)' = Fleet!Body(doc)
BY DEF Fleet!Body

LEMMA FileIsRight ==
    ASSUME UNCHANGED script, NEW u, NEW w, NEW b, Wanted(u)' = w, Fleet!Body(w)' = b,
           Fleet!SameFile(file'[u], b)
    PROVE  FileRight(u)'
<1>1. PICK f : f = file'[u]
  OBVIOUS
<1>2. Fleet!SameFile(f, b)' = Fleet!SameFile(f, b)
  BY DEF Fleet!SameFile
<1>3. Fleet!Body(Wanted(u))' = b
  <2>1. Fleet!Body(Wanted(u))' = Fleet!Body(w)'
    OBVIOUS
  <2>. QED BY <2>1
<1>4. Fleet!SameFile(file[u], Fleet!Body(Wanted(u)))' = Fleet!SameFile(f, b)'
  BY <1>1, <1>3
<1>. QED BY <1>1, <1>2, <1>4 DEF FileRight

LEMMA RightStays ==
    ASSUME UNCHANGED <<script, row, panel>>, NEW u, file'[u] = file[u], Wanted(u)' = Wanted(u), FileRight(u)
    PROVE  FileRight(u)'
<1>1. PICK w : w = Wanted(u)
  OBVIOUS
<1>2. Fleet!Body(w)' = Fleet!Body(w)
  BY BodyStays
<1>3. Fleet!SameFile(file'[u], Fleet!Body(w))
  BY <1>1 DEF FileRight
<1>. QED BY <1>1, <1>2, <1>3, FileIsRight

\* Where a file follows, one is still to be made.
LEMMA FollowsReady ==
    ASSUME script \in DOMAIN Scripts, UNCHANGED script, mode' = "run", NEW h \in Nat, phase' = h,
           NEW u, u \in Fleet!Selected(seen)', Follows(T, h, u = vip)
    PROVE  FileReady(u)'
<1>1. T' = T /\ (Fleet!Plan)' = Course(T)
  BY DEF T, Fleet!Plan, Fleet!S, Course
<1>2. Len(Course(T)) \in Nat /\ DOMAIN Course(T) = 1..Len(Course(T))
  BY ScriptIs
<1>3. CASE Comes(T, h, FileWrites, {"users", "caught"} \cup IF u = vip THEN {"vip"} ELSE {})
  <2>1. PICK k \in h + 1..Len(Course(T)) :
          /\ Course(T)[k][1] \in {"users", "caught"} \cup IF u = vip THEN {"vip"} ELSE {}
          /\ LoopDoes(Course(T)[k], FileWrites)
    BY <1>3 DEF Comes
  <2>2. k \in 1..Len(Course(T)) /\ k > h /\ k \in DOMAIN Course(T)
    BY <1>2, <2>1
  <2>3. u \in Fleet!Known(seen)'
    <3>1. T.who \in {"all", "vip", "affected", "holders", "empty"}
      BY ScriptIs
    <3>. QED BY <1>1, <3>1 DEF Fleet!Selected, Fleet!S, T
  <2>4. u \in Fleet!Items("users")' /\ u \in Fleet!Items("caught")' /\ (u = vip => u \in Fleet!Items("vip")')
    BY <2>3 DEF Fleet!Items
  <2>5. u \in Fleet!Items(Course(T)[k][1])'
    BY <1>1, <2>1, <2>4
  <2>6. Course(T)[k][1] \in ClientLoops'
    BY <1>1, <2>1, <2>2 DEF ClientLoops
  <2>7. Later(u, FileWrites, ClientLoops)'
    BY <1>1, <2>1, <2>2, <2>5, <2>6 DEF Later
  <2>. QED BY <2>7 DEF FileReady, Due
<1>4. CASE Relists(T, h)
  <2>1. PICK r, k \in h + 1..Len(Course(T)) :
          /\ r < k /\ Course(T)[r] = <<"once", "relist">>
          /\ Course(T)[k][1] = "relisted" /\ LoopDoes(Course(T)[k], {"refile"})
    BY <1>4 DEF Relists
  <2>2. r \in 1..Len(Course(T)) /\ k \in 1..Len(Course(T)) /\ phase' < r
    BY <1>2, <2>1
  <2>3. Relisting'
    BY <1>1, <2>1, <2>2 DEF Relisting
  <2>. QED BY <2>3 DEF FileReady
<1>. QED BY <1>3, <1>4 DEF Follows

\* What is still to be made stays so until it is.
LEMMA DuesStay ==
    ASSUME Placing, Shape, NEW p, Ordered(p), EmptyStays(p), Traces(p), GoesOn(p), NEW u \in Clients,
           Relisting \/ (Relisted /\ Due(u, {"refile"}, {"relisted"})) \/ Due(u, FileWrites, ClientLoops),
           Fleet!Enter \/ \E i \in Items : \E t : Acts(t, i) /\ t # "relist" /\ (t \notin FileWrites \/ u # i)
    PROVE  FileReady(u)'
<1>1. CASE Relisting
  <2>1. Relisting'
    BY <1>1, RelistingStays
  <2>. QED BY <2>1 DEF FileReady
<1>2. CASE Relisted /\ Due(u, {"refile"}, {"relisted"})
  <2>1. UNCHANGED listed
    <3>1. CASE Fleet!Enter
      BY <3>1, GoingOn
    <3>2. ASSUME NEW i, NEW t, Acts(t, i), t # "relist" PROVE UNCHANGED listed
      BY <3>2 DEF Acts, Stores
    <3>. QED BY <3>1, <3>2
  <2>2. Fleet!Enter \/ \E i \in Items : \E t : Acts(t, i) /\ (t # "refile" \/ u # i)
    BY DEF FileWrites
  <2>3. Relisted' /\ Due(u, {"refile"}, {"relisted"})'
    BY <1>2, <2>1, <2>2, RelistedStays
  <2>. QED BY <2>3 DEF FileReady
<1>3. CASE Due(u, FileWrites, ClientLoops)
  <2>1. Due(u, FileWrites, ClientLoops)'
    BY <1>3, DueStays
  <2>. QED BY <2>1 DEF FileReady
<1>. QED BY <1>1, <1>2, <1>3

\* A file that is made is made of what is wanted.
LEMMA FileMade ==
    ASSUME Placing, Shape, Filed, NEW p, Ordered(p), EmptyStays(p), Traces(p), Selects(p), GoesOn(p),
           MakesFiles, NEW u \in Fleet!Selected(seen), Lists => ListReady(u),
           Does(Course(T), {"refile"}) => ListedReady(u),
           u \in Items, NEW t \in FileWrites, Acts(t, u)
    PROVE  FileRight(u)'
<1>1. /\ UNCHANGED script /\ T' = T /\ script \in DOMAIN Scripts /\ HasRead(p) /\ mode = "run" /\ u \in Clients
      /\ phase \in Nat
  BY GoingOn, SelectedIs DEF GoesOn
<1>2. Fleet!Now(t, u) /\ Effects(t, u) /\ Stores(t, u)
  BY DEF Acts, Succeeds
<1>3. UNCHANGED <<row, panel, seen, prev>>
  <2>1. t \notin {"users", "servers", "panel", "panelBack"} /\ t \notin Fleet!RowWrites
    BY DEF FileWrites, Fleet!RowWrites
  <2>. QED BY <1>2, <2>1 DEF Effects, Stores
<1>4. Wanted(u)' = Wanted(u)
  BY <1>1, <1>3, WantedSame
<1>5. \A ss : t \in ss => LoopDoes(Course(T)[phase], ss) /\ Does(Course(T), ss)
  BY <1>1, <1>2, RunsAt
<1>6. phase \in DOMAIN Course(T)
  BY <1>1, <1>2, RunsAt
<1>7. SUFFICES file'[u] = Fleet!Body(Wanted(u))
  <2>1. PICK w : w = Wanted(u)
    OBVIOUS
  <2>2. Fleet!Body(w)' = Fleet!Body(w)
    BY <1>3, BodyStays
  <2>3. Fleet!SameFile(file'[u], Fleet!Body(w))
    BY <1>7, <2>1 DEF Fleet!SameFile
  <2>. QED BY <1>1, <1>4, <2>1, <2>2, <2>3, FileIsRight
<1>8. CASE t \in {"file", "fileOrNote"}
  <2>1. file'[u] = Fleet!Body(Fleet!After(u, seen[u]))
    BY <1>1, <1>2, <1>8 DEF Stores, Filed, Fleet!AsWritten
  <2>2. Wanted(u) = Fleet!After(u, seen[u])
    <3>1. CASE ~Lists
      <4>1. Does(Course(T), {"file", "fileOrNote"})
        BY <1>5, <1>8
      <4>2. Untouched(T) /\ ~T.own
        BY <3>1, <4>1 DEF Ordered, FilesAreMade, Lists
      <4>3. seen[u] \in Fleet!Doc
        BY <1>1, ReadDoc
      <4>. QED BY <3>1, <4>2, <4>3, AfterUntouched DEF Wanted
    <3>. QED BY <3>1 DEF Wanted
  <2>. QED BY <2>1, <2>2
<1>9. CASE t = "refile"
  <2>1. file'[u] = Fleet!Body(listed[u])
    BY <1>1, <1>2, <1>9 DEF Stores, Filed
  <2>2. Does(Course(T), {"refile"}) /\ LoopDoes(Course(T)[phase], {"refile"})
    BY <1>5, <1>9
  <2>3. PICK r \in Places(Course(T)) : /\ Course(T)[r[1]][r[2]] = "relist" /\ r[1] < phase /\ r[1] \in Nat
    BY <1>1, <1>6, <2>2, RelistIs
  <2>4. ~Ahead(r)
    BY <1>1, <2>3 DEF Ahead
  <2>5. listed[u] = Wanted(u)
    BY <2>2, <2>3, <2>4 DEF ListedReady
  <2>. QED BY <2>1, <2>5
<1>10. CASE t = "sync"
  <2>1. file'[u] = Fleet!Body(user[u])
    BY <1>1, <1>2, <1>10 DEF Stores, Filed
  <2>2. \A h \in DOMAIN Course(T) : LoopDoes(Course(T)[h], {"list"}) => h < phase
    <3>1. LoopDoes(Course(T)[phase], {"sync"})
      BY <1>5, <1>10
    <3>. QED BY <1>6, <3>1 DEF Ordered, FilesAreMade
  <2>3. user[u] = Wanted(u)
    BY <1>1, <2>2, ListsSettled
  <2>. QED BY <2>1, <2>3
<1>. QED BY <1>8, <1>9, <1>10 DEF FileWrites

\* Those listed again have files to be made.
LEMMA ListedAgain ==
    ASSUME Placing, Shape, NEW p, Ordered(p), EmptyStays(p), Traces(p), Selects(p), GoesOn(p),
           MakesFiles, NEW u \in Fleet!Selected(seen), Lists => ListReady(u), FileReady(u),
           NEW i \in Items, Acts("relist", i)
    PROVE  FileReady(u)'
<1>1. /\ UNCHANGED script /\ T' = T /\ script \in DOMAIN Scripts /\ HasRead(p) /\ mode = "run" /\ u \in Clients
      /\ phase \in Nat /\ Fleet!Plan = Course(T) /\ (Fleet!Plan)' = Course(T)
      /\ Len(Course(T)) \in Nat /\ DOMAIN Course(T) = 1..Len(Course(T))
  BY GoingOn, SelectedIs, ScriptIs DEF GoesOn
<1>2. /\ Fleet!Now("relist", i) /\ Fleet!Advance(i) /\ phase' = phase
      /\ listed' = user /\ UNCHANGED <<user, row, file, panel, seen, prev>>
  BY DEF Acts, Succeeds, Effects, Stores, Fleet!Advance, Fleet!RowWrites
<1>3. /\ i \in left /\ left \subseteq RangeOf(Course(T)[phase][1]) /\ at \in Nat
      /\ Course(T)[phase][at + 1] = "relist" /\ <<phase, at + 1>> \in Places(Course(T))
      /\ Len(Fleet!Do) = Len(Course(T)[phase]) - 1
  BY <1>1, <1>2, RunsAt
<1>4. ASSUME NEW r \in 1..Len(Course(T)), Course(T)[r] = <<"once", "relist">>,
             NEW k \in 1..Len(Course(T)), LoopDoes(Course(T)[k], {"refile"})
      PROVE  phase = r /\ at = 1 /\ Len(Fleet!Do) = 1 /\ left = {None} /\ i = None
  <2>1. Does(Course(T), {"refile"})
    BY <1>1, <1>4, LoopOfCourse
  <2>2. <<r, 2>> \in Places(Course(T)) /\ Course(T)[r][2] = "relist"
    <3>1. 2 \in 2..Len(Course(T)[r])
      BY <1>4
    <3>. QED BY <1>1, <1>4, <3>1 DEF Places
  <2>3. <<r, 2>> = <<phase, at + 1>>
    <3>1. PICK q \in Places(Course(T)) :
            \A s \in Places(Course(T)) : Course(T)[s[1]][s[2]] = "relist" => s = q
      BY <1>1, <2>1, RelistIs
    <3>2. <<r, 2>> = q
      BY <2>2, <3>1
    <3>3. <<phase, at + 1>> = q
      BY <1>3, <3>1
    <3>. QED BY <3>2, <3>3
  <2>4. phase = r /\ at = 1
    BY <1>3, <2>3
  <2>5. Len(Fleet!Do) = 1 /\ Course(T)[phase][1] = "once"
    BY <1>3, <1>4, <2>4
  <2>6. left \subseteq {None}
    BY <1>3, <2>5 DEF RangeOf, UserLoops
  <2>. QED BY <1>3, <2>4, <2>5, <2>6
<1>5. CASE Relisting
  <2>1. PICK r, k \in 1..Len(Course(T)) :
          /\ r < k /\ Course(T)[r] = <<"once", "relist">>
          /\ Course(T)[k][1] = "relisted" /\ LoopDoes(Course(T)[k], {"refile"})
    BY <1>5 DEF Relisting
  <2>2. phase = r /\ at = 1 /\ Len(Fleet!Do) = 1 /\ left = {None} /\ i = None
    BY <1>4, <2>1
  <2>3. left' = {} /\ phase' = r
    BY <1>2, <2>2 DEF Fleet!Advance
  <2>4. Relisted'
    BY <1>1, <2>1, <2>3 DEF Relisted
  <2>5. u \in Fleet!Items("relisted")'
    <3>1. T.who \in {"all", "vip", "affected"}
      BY <1>1, <2>1 DEF Ordered, FilesAreMade
    <3>2. Fleet!Selected(user) = Fleet!Selected(seen)
      BY <1>1, <3>1, SelectedDescend DEF Traces
    <3>3. PICK now : now = user
      OBVIOUS
    <3>4. Fleet!Selected(now)' = Fleet!Selected(now)
      BY <1>1, <1>2, SelectedStays
    <3>5. Fleet!Selected(listed)' = Fleet!Selected(now)'
      BY <1>2, <3>3
    <3>. QED BY <3>2, <3>3, <3>4, <3>5 DEF Fleet!Items
  <2>6. Later(u, {"refile"}, {"relisted"})'
    <3>1. Fleet!Items(Course(T)[k][1])' = Fleet!Items("relisted")'
      BY <1>1, <2>1
    <3>. QED BY <1>1, <2>1, <2>3, <2>5, <3>1 DEF Later
  <2>. QED BY <2>4, <2>6 DEF FileReady, Due
<1>6. CASE Relisted /\ Due(u, {"refile"}, {"relisted"})
  <2>1. PICK r \in 1..Len(Course(T)) :
          Course(T)[r] = <<"once", "relist">> /\ (phase > r \/ (phase = r /\ left = {}))
    BY <1>6 DEF Relisted
  <2>2. PICK k \in 1..Len(Course(T)) : LoopDoes(Course(T)[k], {"refile"})
    BY <1>1, <1>6 DEF Due, Here, Later, LoopDoes
  <2>3. phase = r /\ left = {None}
    BY <1>4, <2>1, <2>2
  <2>. QED BY <2>1, <2>3
<1>7. CASE Due(u, FileWrites, ClientLoops)
  <2>1. "relist" \notin FileWrites
    BY DEF FileWrites
  <2>2. Due(u, FileWrites, ClientLoops)'
    BY <1>1, <1>7, <2>1, DueStays
  <2>. QED BY <2>2 DEF FileReady
<1>8. CASE FileRight(u)
  <2>1. Wanted(u)' = Wanted(u)
    BY <1>1, <1>2, WantedSame
  <2>. QED BY <1>1, <1>2, <1>8, <2>1, RightStays DEF FileReady
<1>. QED BY <1>5, <1>6, <1>7, <1>8 DEF FileReady

\* When a server is written, a file of whoever has it follows.
LEMMA RowsFollow ==
    ASSUME Placing, Shape, NEW p, Ordered(p), EmptyStays(p), Traces(p), Selects(p), GoesOn(p),
           MakesFiles, NEW u \in Fleet!Selected(seen), FileReady(u),
           NEW i \in Items, NEW t \in RowWrites, Acts(t, i)
    PROVE  FileReady(u)'
<1>1. /\ UNCHANGED <<script, origin>> /\ T' = T /\ script \in DOMAIN Scripts /\ HasRead(p)
      /\ mode = "run" /\ mode' = "run" /\ u \in Clients
      /\ phase \in Nat /\ p[1] \in Nat /\ phase >= p[1] /\ Course(T)[p[1]][1] = "once"
  BY GoingOn, SelectedIs DEF GoesOn
<1>2. /\ i \in ServersOf(Course(T)[phase][1]) /\ i \in Servers
      /\ phase \in DOMAIN Course(T) /\ LoopDoes(Course(T)[phase], RowWrites)
      /\ Course(T)[phase][1] \in RowLoops
      /\ row' = [row EXCEPT ![i] = Fleet!RowAfter(t, i)]
  BY <1>1, RowsSpared
<1>3. /\ Fleet!Now(t, i) /\ Fleet!Advance(i) /\ phase' = phase
      /\ UNCHANGED <<user, file, panel, seen, prev>> /\ t # "relist" /\ t \notin FileWrites
  <2>1. t \notin {"users", "servers", "list", "listBack", "panel", "panelBack", "fileBack", "relist"} \cup FileWrites
    BY DEF RowWrites, FileWrites
  <2>2. Fleet!Now(t, i) /\ Fleet!Advance(i) /\ phase' = phase
    BY DEF Acts, Succeeds, Fleet!Advance
  <2>3. UNCHANGED <<user, seen, prev>>
    BY <2>1 DEF Acts, Succeeds, Effects
  <2>4. UNCHANGED <<file, panel>>
    BY <2>1 DEF Acts, Stores, FileWrites
  <2>. QED BY <2>1, <2>2, <2>3, <2>4
<1>4. phase > p[1]
  <2>1. Course(T)[phase][1] # "once"
    BY <1>2 DEF RowLoops
  <2>. QED BY <1>1, <2>1
<1>5. u \in Fleet!Selected(seen)'
  BY <1>1, <1>3, SameSelected DEF GoesOn
<1>6. Follows(T, phase, u = vip) \/ Spares(T, u = vip, phase)
  <2>1. u = vip \/ T.who # "vip"
    BY <1>1, SelectedIs
  <2>2. FilesFollow(T, p, u = vip, Skips, Last)
    BY <2>1 DEF Ordered
  <2>. QED BY <1>2, <1>4, <2>2 DEF FilesFollow
<1>7. CASE Follows(T, phase, u = vip)
  BY <1>1, <1>3, <1>5, <1>7, FollowsReady
<1>8. CASE Spares(T, u = vip, phase)
  <2>1. CASE ~FileRight(u)
    BY <1>1, <1>3, <2>1, DuesStay DEF FileReady
  <2>2. CASE FileRight(u)
    <3>1. Wanted(u)' = Wanted(u)
      BY <1>1, <1>3, WantedSame
    <3>2. PICK w : w = Wanted(u)
      OBVIOUS
    <3>3. row'[i] = row[i] \/ i \notin w.list
      <4> DEFINE change == Fleet!Change(u)
      <4>1. change = IF u = vip THEN T.vip ELSE T.rest
        BY DEF Fleet!Change, Fleet!S, T
      <4>2. Lists /\ i \in change.drops \ change.adds
        BY <1>2, <1>8, <4>1 DEF Spares, Lists
      <4> HIDE DEF change
      <4>3. w.list = (seen[u].list \ Fleet!Drops(u)) \cup Fleet!Adds(u) /\ Fleet!Adds(u) \subseteq change.adds
        BY <3>2, <4>2 DEF Wanted, Fleet!After, Fleet!Adds, change
      <4>4. CASE T.pick = "all"
        <5>1. Fleet!Drops(u) = change.drops
          BY <4>4 DEF Fleet!Drops, Fleet!S, T, change
        <5>. QED BY <4>2, <4>3, <5>1
      <4>5. CASE T.pick = "off" /\ ~LoopDoes(Course(T)[phase], RowWrites \ {"deleteOff"})
        <5>1. t = "deleteOff"
          <6>1. \A ss : t \in ss => LoopDoes(Course(T)[phase], ss)
            BY <1>1, <1>3, RunsAt
          <6>. QED BY <4>5, <6>1
        <5>2. CASE Fleet!Off(i)
          <6>1. i \in Fleet!Drops(u)
            BY <4>2, <4>5, <5>2 DEF Fleet!Drops, Fleet!S, T, change
          <6>. QED BY <4>2, <4>3, <6>1
        <5>3. CASE ~Fleet!Off(i)
          <6>1. Fleet!RowAfter(t, i) = row[i]
            BY <5>1, <5>3 DEF Fleet!RowAfter, Fleet!Off
          <6>. QED BY <1>2, <6>1 DEF Shape
        <5>. QED BY <5>2, <5>3
      <4>. QED BY <1>8, <4>4, <4>5 DEF Spares
    <3>4. \A j \in w.list : row'[j] = row[j]
      BY <1>2, <3>3 DEF Shape
    <3>5. Fleet!Body(w)' = Fleet!Body(w)
      BY <1>3, <3>4 DEF Fleet!Body
    <3>6. Fleet!SameFile(file'[u], Fleet!Body(w))
      BY <1>3, <2>2, <3>2 DEF FileRight
    <3>. QED BY <1>1, <3>1, <3>2, <3>5, <3>6, FileIsRight DEF FileReady
  <2>. QED BY <2>1, <2>2
<1>. QED BY <1>6, <1>7, <1>8

\* A step leaves a file right, or still to be made.
LEMMA FilesReady ==
    ASSUME Placing, Shape, Filed, NEW p, Ordered(p), EmptyStays(p), Traces(p), Selects(p), GoesOn(p),
           MakesFiles, NEW u \in Fleet!Selected(seen), Lists => ListReady(u),
           Does(Course(T), {"refile"}) => ListedReady(u), FileReady(u),
           Fleet!Enter \/ \E i \in Items : \E t : Acts(t, i)
    PROVE  FileReady(u)'
<1>1. /\ UNCHANGED <<script, origin>> /\ T' = T /\ script \in DOMAIN Scripts /\ HasRead(p)
      /\ mode = "run" /\ mode' = "run" /\ u \in Clients
      /\ phase \in Nat /\ p[1] \in Nat /\ phase >= p[1]
  BY GoingOn, SelectedIs DEF GoesOn
<1>2. CASE Fleet!Enter
  <2>1. UNCHANGED <<row, file, panel>> /\ Wanted(u)' = Wanted(u)
    BY <1>1, <1>2, GoingOn, WantedStays
  <2>2. FileRight(u) => FileRight(u)'
    BY <1>1, <2>1, RightStays
  <2>3. ~FileRight(u) => FileReady(u)'
    BY <1>1, <1>2, DuesStay DEF FileReady
  <2>. QED BY <2>2, <2>3 DEF FileReady
<1>3. ASSUME NEW i \in Items, NEW t, Acts(t, i) PROVE FileReady(u)'
  <2>1. Fleet!Now(t, i) /\ Fleet!Advance(i) /\ Effects(t, i) /\ Stores(t, i) /\ phase' = phase
    BY <1>3 DEF Acts, Succeeds, Fleet!Advance
  <2>2. /\ phase \in DOMAIN Course(T)
        /\ \A ss : t \in ss => LoopDoes(Course(T)[phase], ss) /\ Does(Course(T), ss)
    BY <1>1, <2>1, RunsAt
  <2>3. t \notin {"listBack", "fileBack", "panelBack"}
    BY <2>2 DEF Ordered, ReadsFirst
  <2>4. Follows(T, phase, u = vip) => FileReady(u)'
    <3>1. UNCHANGED seen \/ t = "users"
      BY <2>1 DEF Effects
    <3>2. u \in Fleet!Selected(seen)'
      BY <1>1, <1>3, <3>1, SameSelected DEF GoesOn
    <3>. QED BY <1>1, <2>1, <3>2, FollowsReady
  <2>5. FilesFollow(T, p, u = vip, Skips, Last)
    <3>1. u = vip \/ T.who # "vip"
      BY <1>1, SelectedIs
    <3>. QED BY <3>1 DEF Ordered
  <2>6. CASE t \in FileWrites /\ i = u
    BY <1>1, <1>3, <2>6, FileMade DEF FileReady
  <2>7. CASE t = "relist"
    BY <1>1, <1>3, <2>7, ListedAgain
  <2>8. CASE t \in RowWrites
    BY <1>1, <1>3, <2>8, RowsFollow
  <2>9. ASSUME t # "relist", t \notin FileWrites \/ i # u PROVE ~FileRight(u) => FileReady(u)'
    BY <1>1, <1>3, <2>9, DuesStay DEF FileReady
  <2>10. CASE t = "panel"
    <3>1. CASE Follows(T, phase, u = vip)
      BY <2>4, <3>1
    <3>2. CASE Last
      <4>1. UNCHANGED <<row, file, seen, prev>>
        BY <2>1, <2>10 DEF Effects, Stores, Fleet!RowWrites, FileWrites
      <4>2. Wanted(u)' = Wanted(u)
        BY <1>1, <4>1, WantedSame
      <4>3. PICK w : w = Wanted(u)
        OBVIOUS
      <4>4. Fleet!Body(w)'.lines = Fleet!Body(w).lines /\ Fleet!Body(w)'.own = Fleet!Body(w).own
        BY <4>1 DEF Fleet!Body
      <4>5. FileRight(u) => Fleet!SameFile(file'[u], Fleet!Body(w)')
        BY <3>2, <4>1, <4>3, <4>4 DEF FileRight, Fleet!SameFile, Last
      <4>6. FileRight(u) => FileRight(u)'
        BY <1>1, <4>2, <4>3, <4>5, FileIsRight
      <4>7. ~FileRight(u) => FileReady(u)'
        BY <2>9, <2>10 DEF FileWrites
      <4>. QED BY <4>6, <4>7 DEF FileReady
    <3>. QED BY <1>1, <2>2, <2>5, <2>10, <3>1, <3>2 DEF FilesFollow
  <2>11. CASE t = "servers" /\ T.pick # "all"
    <3>1. phase = p[1]
      <4>1. phase <= p[1]
        BY <2>2, <2>11 DEF Ordered, ReadsFirst
      <4>. QED BY <1>1, <4>1
    <3>2. Follows(T, phase, u = vip)
      BY <2>5, <2>11, <3>1 DEF FilesFollow, PassesOver
    <3>. QED BY <2>4, <3>2
  <2>12. CASE /\ t # "relist" /\ t \notin RowWrites /\ t # "panel" /\ (t \notin FileWrites \/ i # u)
              /\ (t = "servers" => T.pick = "all")
    <3>1. Wanted(u)' = Wanted(u)
      BY <1>1, <1>3, <2>12, WantedStays
    <3>2. row' = row /\ panel' = panel
      BY <2>1, <2>3, <2>12, SameWrites DEF Effects, Stores
    <3>3. file'[u] = file[u]
      <4>1. file' = file \/ (i # u /\ \E body : file' = [file EXCEPT ![i] = body])
        BY <2>1, <2>3, <2>12 DEF Stores, FileWrites
      <4>. QED BY <1>1, <4>1 DEF Filed
    <3>4. FileRight(u) => FileRight(u)'
      BY <1>1, <3>1, <3>2, <3>3, RightStays
    <3>. QED BY <2>9, <2>12, <3>4 DEF FileReady
  <2>. QED BY <2>6, <2>7, <2>8, <2>10, <2>11, <2>12
<1>. QED BY <1>2, <1>3

\* When the clients are read, all is still to come, but for those passed over.
LEMMA FilesBegin ==
    ASSUME Placing, Shape, NEW p, Ordered(p), Traces(p), First(p), NEW u \in Clients, PassedOver(p, u),
           MakesFiles, Skips => runs = 1,
           mode = "run", mode' = "run", Ahead(p), phase = p[1], UNCHANGED script,
           NEW i \in Items, Acts("users", i), u \in Fleet!Selected(user)
    PROVE  FileReady(u)'
<1>1. /\ script \in DOMAIN Scripts /\ T' = T /\ p[1] \in Nat /\ user[u] # None /\ (Fleet!Plan)' = Course(T)
  <2>1. script \in DOMAIN Scripts
    BY DEF Placing
  <2>2. user[u] # None
    BY <2>1, SelectedIs
  <2>3. p[1] \in Nat
    BY <2>1, ReadsAt DEF Ordered, ReadsFirst
  <2>. QED BY <2>1, <2>2, <2>3 DEF T, Fleet!Plan, Fleet!S, Course
<1>2. /\ phase' = phase /\ seen' = user /\ UNCHANGED <<user, row, file, panel, prev, runs>>
  BY DEF Acts, Succeeds, Effects, Stores, Fleet!Advance, Fleet!RowWrites
<1>3. u \in Fleet!Selected(seen)'
  <2>1. PICK now : now = user
    OBVIOUS
  <2>2. Fleet!Selected(now)' = Fleet!Selected(now)
    BY <1>2, SelectedStays
  <2>3. Fleet!Selected(seen)' = Fleet!Selected(now)'
    BY <1>2, <2>1
  <2>. QED BY <2>1, <2>2, <2>3
<1>4. FilesFollow(T, p, u = vip, Skips, Last)
  <2>1. u = vip \/ T.who # "vip"
    BY <1>1, SelectedIs
  <2>. QED BY <2>1 DEF Ordered
<1>5. CASE Follows(T, p[1], u = vip)
  BY <1>1, <1>2, <1>3, <1>5, FollowsReady
<1>6. CASE Skips /\ PassesOver(T, p, u = vip, Last)
  <2>1. CASE Fleet!After(u, seen[u])' # seen'[u]
    <3>1. PICK k \in p[1] + 1..Len(Course(T)) :
            Course(T)[k][1] = "changed" /\ LoopDoes(Course(T)[k], FileWrites)
      BY <1>6 DEF PassesOver, Comes
    <3>2. k > p[1] /\ k \in 1..Len(Course(T)) /\ k \in DOMAIN Course(T)
      BY <1>1, <3>1, ScriptIs
    <3>3. u \in Fleet!Items("changed")'
      BY <1>3, <2>1 DEF Fleet!Items
    <3>4. u \in Fleet!Items(Course(T)[k][1])' /\ Course(T)[k][1] \in ClientLoops'
      BY <1>1, <3>1, <3>2, <3>3 DEF ClientLoops
    <3>5. Later(u, FileWrites, ClientLoops)'
      BY <1>1, <1>2, <3>1, <3>2, <3>4 DEF Later
    <3>. QED BY <3>5 DEF FileReady, Due
  <2>2. CASE Fleet!After(u, seen[u])' = seen'[u]
    <3>1. PICK w : w = user[u]
      OBVIOUS
    <3>2. Wanted(u)' = w
      BY <1>2, <2>2, <3>1 DEF Wanted
    <3>3. /\ FirstBody(u)
          /\ \A j \in Servers \ (Fleet!Change(u).drops \ Fleet!Change(u).adds) : row[j] = origin.row[j]
      BY <1>1, <1>6 DEF PassedOver
    <3>4. w \in Fleet!Doc
      BY <1>1, <3>1 DEF Traces, AllDescend, Descends
    <3>5. \A j \in w.list : row[j] = origin.row[j]
      <4>1. T.pick = "all"
        BY <1>6 DEF PassesOver
      <4>2. Fleet!After(u, w) = w
        <5>1. Fleet!After(u, w)' = Fleet!After(u, w)
          BY <4>1, AfterStays
        <5>2. Fleet!After(u, seen[u])' = Fleet!After(u, w)'
          BY <1>2, <3>1
        <5>. QED BY <1>2, <2>2, <3>1, <5>1, <5>2
      <4>3. w.list = (w.list \ Fleet!Change(u).drops) \cup Fleet!Change(u).adds
        <5>1. Fleet!Drops(u) = Fleet!Change(u).drops /\ Fleet!Adds(u) = Fleet!Change(u).adds
          BY <4>1 DEF Fleet!Drops, Fleet!Adds, Fleet!S, T
        <5>2. Fleet!After(u, w).list = (w.list \ Fleet!Drops(u)) \cup Fleet!Adds(u)
          BY DEF Fleet!After
        <5>. QED BY <4>2, <5>1, <5>2
      <4>4. w.list \subseteq Servers
        BY <3>4 DEF Fleet!Doc, Fleet!Servers, Servers
      <4>. QED BY <3>3, <4>3, <4>4
    <3>6. {<<j, origin.row[j].fields>> : j \in {k \in user[u].list : WasOn(k)}}
             = {<<j, row[j].fields>> : j \in {k \in w.list : row[k] # None /\ row[k].on}}
      BY <3>1, <3>5 DEF WasOn
    <3>7. Fleet!SameFile(file'[u], Fleet!Body(w))
      BY <1>2, <3>1, <3>3, <3>6 DEF FirstBody, Fleet!Body, Fleet!SameFile, Last
    <3>8. Fleet!Body(w)' = Fleet!Body(w)
      BY <1>2, BodyStays
    <3>. QED BY <3>2, <3>7, <3>8, FileIsRight DEF FileReady
  <2>. QED BY <2>1, <2>2
<1>. QED BY <1>4, <1>5, <1>6 DEF FilesFollow

\* Clients who have just been read are to be listed again, if at all.
LEMMA ListedBegin ==
    ASSUME Placing, Shape, NEW p, Ordered(p), MakesFiles, Does(Course(T), {"refile"}),
           mode = "run", mode' = "run", Ahead(p), HasRead(p)', phase = p[1], UNCHANGED script,
           NEW i \in Items, Acts("users", i), NEW u
    PROVE  ListedReady(u)'
<1>1. /\ script \in DOMAIN Scripts /\ T' = T /\ p[1] \in Nat /\ p[2] \in Nat
  <2>1. script \in DOMAIN Scripts
    BY DEF Placing
  <2>2. p[1] \in Nat /\ p[2] \in Nat
    BY <2>1, ReadsAt DEF Ordered, ReadsFirst
  <2>. QED BY <2>1, <2>2 DEF T
<1>2. PICK r \in Places(Course(T)) :
        /\ Earlier(p, r)
        /\ r[1] \in 1..Len(Course(T)) /\ r[2] \in 2..Len(Course(T)[r[1]]) /\ r[1] \in Nat /\ r[2] \in Nat
        /\ \A q \in Places(Course(T)) : Course(T)[q[1]][q[2]] = "relist" => q = r
  BY <1>1, RelistIs
<1>3. SUFFICES Ahead(r)'
  <2>1. \A q \in Places(Course(T)) : Course(T)[q[1]][q[2]] = "relist" => q = r
    BY <1>2
  <2>2. Ahead(r)' => ListedReady(u)'
    BY <1>1, <2>1 DEF ListedReady
  <2>. QED BY <1>3, <2>2
<1>4. Fleet!Now("users", i) /\ Fleet!Advance(i) /\ phase' = phase
  BY DEF Acts, Succeeds, Fleet!Advance
<1>5. CASE r[1] > p[1]
  BY <1>1, <1>2, <1>4, <1>5 DEF Ahead
<1>6. CASE r[1] = p[1] /\ p[2] < r[2]
  <2>1. at \in Nat /\ Len(Fleet!Do) = Len(Course(T)[phase]) - 1 /\ left # {}
    BY <1>4, RunsAt
  <2>2. at < p[2] /\ Len(Course(T)[phase]) \in Nat
    BY <1>1, <1>2, <1>6, ScriptIs DEF Ahead
  <2>3. at # Len(Fleet!Do)
    BY <1>1, <1>2, <1>6, <2>1, <2>2
  <2>4. left' = left /\ at' = at + 1
    BY <1>4, <2>3 DEF Fleet!Advance
  <2>5. at + 1 <= p[2]
    BY <1>1, <2>1, <2>2
  <2>6. at' < r[2]
    BY <1>1, <1>2, <1>6, <2>1, <2>4, <2>5
  <2>. QED BY <1>4, <1>6, <2>1, <2>4, <2>6 DEF Ahead
<1>. QED BY <1>1, <1>2, <1>5, <1>6 DEF Earlier

LEMMA ReadiesNext ==
    ASSUME Placing, Shape, Filed, NEW p, Ordered(p), EmptyStays(p), Traces(p), First(p),
           \A u \in Clients : PassedOver(p, u), Selects(p), Readies(p), Fleet!Next
    PROVE  Readies(p)'
<1>1. UNCHANGED <<script, origin>> /\ T' = T /\ script \in DOMAIN Scripts /\ Certain(T.before, p, "users")
  <2>1. UNCHANGED <<script, origin>>
    BY StepIs
  <2>. QED BY <2>1 DEF T, Placing, Ordered, ReadsFirst
<1>2. SUFFICES ASSUME HasRead(p)', ~failing', NEW u, u \in Fleet!Selected(seen)' PROVE Prepared(u)'
  BY DEF Readies
<1>3. mode' = "run"
  BY <1>2 DEF HasRead
<1>4. Lists' = Lists /\ MakesFiles' = MakesFiles /\ Skips' = Skips
      /\ (Does(Course(T), {"refile"}))' = Does(Course(T), {"refile"})
  BY <1>1 DEF Lists, MakesFiles, Skips
<1>5. CASE mode = "run" /\ Ahead(p) /\ phase = p[1] /\ \E i \in Items : Acts("users", i)
  <2>1. PICK i \in Items : Acts("users", i)
    BY <1>5
  <2>2. phase' = phase /\ seen' = user /\ UNCHANGED <<user, row, runs>>
    BY <2>1 DEF Acts, Succeeds, Effects, Stores, Fleet!Advance, Fleet!RowWrites
  <2>3. u \in Fleet!Selected(user) /\ u \in Clients
    <3>1. PICK now : now = user
      OBVIOUS
    <3>2. Fleet!Selected(now)' = Fleet!Selected(now)
      BY <1>1, <2>2, SelectedStays
    <3>3. Fleet!Selected(seen)' = Fleet!Selected(now)'
      BY <2>2, <3>1
    <3>4. u \in Fleet!Selected(user)
      BY <1>2, <3>1, <3>2, <3>3
    <3>. QED BY <1>1, <3>4, SelectedIs
  <2>4. Lists => ListReady(u)'
    BY <1>1, <1>2, <1>3, <1>5, <2>2, ListsBegin
  <2>5. MakesFiles /\ (Skips => runs = 1) => FileReady(u)'
    BY <1>1, <1>3, <1>5, <2>1, <2>3, FilesBegin
  <2>6. MakesFiles /\ Does(Course(T), {"refile"}) => ListedReady(u)'
    BY <1>1, <1>2, <1>3, <1>5, <2>1, ListedBegin
  <2>. QED BY <1>4, <2>2, <2>4, <2>5, <2>6 DEF Prepared
<1>6. CASE HasRead(p) /\ Goes
  <2>1. GoesOn(p) /\ mode = "run"
    BY <1>2, <1>6 DEF GoesOn, HasRead
  <2>2. Fleet!Enter \/ \E i \in Items : \E t : Acts(t, i)
    <3>1. ASSUME NEW i, NEW t, Breaks(t, i) PROVE failing'
      BY <1>3, <2>1, <3>1 DEF Breaks, Throws, Fleet!Raise, Fleet!Leave
    <3>. QED BY <1>2, <1>6, <3>1 DEF Goes
  <2>3. ~failing /\ runs' = runs
    <3>1. CASE Fleet!Enter
      BY <1>2, <2>1, <3>1, GoingOn
    <3>2. CASE \E i \in Items : \E t : Acts(t, i)
      BY <1>2, <3>2 DEF Acts, Stores
    <3>. QED BY <2>2, <3>1, <3>2
  <2>4. u \in Fleet!Selected(seen)
    <3>1. UNCHANGED seen \/ \E i : Acts("users", i)
      <4>1. CASE Fleet!Enter
        BY <2>1, <4>1, GoingOn
      <4>2. ASSUME NEW i, NEW t, Acts(t, i) PROVE UNCHANGED seen \/ \E j : Acts("users", j)
        BY <4>2 DEF Acts, Succeeds, Effects
      <4>. QED BY <2>2, <4>1, <4>2
    <3>2. Fleet!Selected(seen)' = Fleet!Selected(seen)
      BY <1>6, <3>1, SameSelected
    <3>. QED BY <1>2, <3>2
  <2>5. Prepared(u)
    BY <1>6, <2>3, <2>4 DEF Readies
  <2>6. Lists => ListReady(u)'
    BY <2>1, <2>2, <2>4, <2>5, ListsReady DEF Prepared
  <2>7. MakesFiles /\ Does(Course(T), {"refile"}) => ListedReady(u)'
    BY <2>1, <2>2, <2>4, <2>5, ListedStays DEF Prepared
  <2>8. MakesFiles /\ (Skips => runs = 1) => FileReady(u)'
    BY <2>1, <2>2, <2>4, <2>5, FilesReady DEF Prepared
  <2>. QED BY <1>4, <2>3, <2>6, <2>7, <2>8 DEF Prepared
<1>7. ~(Fleet!Again /\ Ahead(p)') /\ ~Ahead(p)'
  BY <1>2 DEF HasRead
<1>. QED BY <1>1, <1>3, <1>5, <1>6, <1>7, RunStep DEF HasRead

-----------------------------------------------------------------------------
(* Scripts that say ok *)

\* What is said of a client when a script is done.
Completed(u) ==
    /\ Lists => user[u] = Fleet!After(u, user[u])
    /\ MakesFiles /\ (Skips => runs = 1) => Fleet!SameFile(file[u], Fleet!Body(user[u]))

CompleteAt(p) ==
    /\ Ordered(p) /\ Traces(p) /\ EmptyStays(p) /\ First(p)
    /\ \A u \in Clients : PassedOver(p, u)
    /\ Selects(p) /\ Readies(p)

\* Lists and files of a script that concerns them are on their way to what is
\* wanted; when it says ok, they are there.
CompleteInv ==
    /\ Placing /\ Shape /\ Filed
    /\ Concerned => \E p \in Places(T.before) : CompleteAt(p)
    /\ mode = "ok" /\ ~failing => \A u \in Fleet!Selected(origin.user) : Completed(u)

\* At first nothing is read.
LEMMA CompleteInit ==
    ASSUME Fleet!Init
    PROVE  CompleteInv
<1>1. /\ mode = "run" /\ phase = 0 /\ left = {} /\ runs = 1 /\ script \in DOMAIN Scripts
      /\ origin.user = user /\ origin.row = row /\ panel = "old"
      /\ file = [u \in Clients |-> IF user[u] = None THEN None ELSE Fleet!Body(user[u])]
  BY DEF Fleet!Init
<1>2. PICK w \in Worlds : user = w.user
  BY DEF Fleet!Init
<1>3. user \in [Clients -> Fleet!Doc \cup {None}]
  BY <1>2, WorldsAssumption
<1>4. Placing /\ Shape
  BY UndoInit DEF UndoInv
<1>5. Filed
  BY <1>1 DEF Filed
<1>6. ASSUME NEW p, NEW s, Certain(T.before, p, s) PROVE Ahead(p)
  <2>1. p[1] \in 1..Len(T.before) /\ p[1] \in Nat
    BY <1>1, <1>6, CertainIs
  <2>. QED BY <1>1, <2>1 DEF Ahead
<1>7. ASSUME Concerned PROVE \E p \in Places(T.before) : CompleteAt(p)
  <2>1. PICK p \in Places(T.before) : Ordered(p)
    BY <1>1, <1>7, ListsAndFilesFollow DEF T, Concerned, Ordered, MakesFiles, Skips, Last
  <2>2. Ahead(p) /\ ~HasRead(p)
    BY <1>6, <2>1 DEF Ordered, ReadsFirst, HasRead
  <2>3. Traces(p)
    <3>1. \A u \in Clients : Descends(u, user[u])
      BY <1>1, <1>3 DEF Descends
    <3>. QED BY <1>1, <2>2, <3>1 DEF Traces, AllDescend
  <2>4. EmptyStays(p)
    <3> SUFFICES ASSUME T.who = "empty"
                 PROVE  \E q \in Places(T.before) :
                          /\ Certain(T.before, q, "servers") /\ q[1] <= p[1]
                          /\ mode = "run" /\ ~Ahead(q) => prev = origin.row
      BY <1>1 DEF EmptyStays
    <3>1. PICK q \in Places(T.before) : Certain(T.before, q, "servers") /\ q[1] <= p[1]
      BY <2>1 DEF Ordered, KeepsSelection
    <3>. QED BY <1>6, <3>1
  <2>5. First(p)
    BY <1>1, <2>2 DEF First
  <2>6. ASSUME NEW u \in Clients, user[u] # None PROVE FirstBody(u)
    <3>1. file[u] = Fleet!Body(user[u])
      BY <1>1, <2>6
    <3>2. \A i : (row[i] # None /\ row[i].on) <=> WasOn(i)
      BY <1>1 DEF WasOn
    <3> DEFINE lines == {<<k, row[k].fields>> : k \in {j \in user[u].list : row[j] # None /\ row[j].on}}
    <3>3. {k \in user[u].list : WasOn(k)} = {k \in user[u].list : row[k] # None /\ row[k].on}
      BY <3>2
    <3>4. {<<k, origin.row[k].fields>> : k \in {j \in user[u].list : WasOn(j)}} = lines
      BY <1>1, <3>3
    <3>5. file[u] = [lines |-> lines, own |-> user[u].own, panel |-> panel]
      BY <3>1 DEF Fleet!Body
    <3> HIDE DEF lines
    <3>6. file[u].lines = lines /\ file[u].own = user[u].own
      BY <3>5
    <3>. QED BY <3>4, <3>5, <3>6 DEF FirstBody
  <2>7. \A u \in Clients : PassedOver(p, u)
    BY <1>1, <2>6 DEF PassedOver
  <2>. QED BY <2>1, <2>2, <2>3, <2>4, <2>5, <2>7 DEF CompleteAt, Selects, Readies
<1>. QED BY <1>1, <1>4, <1>5, <1>7 DEF CompleteInv

\* When its loops are over, nothing is due.
LEMMA Finished ==
    ASSUME Placing, Shape, mode = "run", left = {}, phase = Len(Fleet!Plan), ~failing,
           NEW p, CompleteAt(p), NEW u \in Fleet!Selected(origin.user)
    PROVE  Completed(u)
<1>1. /\ script \in DOMAIN Scripts /\ Fleet!Plan = Course(T) /\ mode \in Fleet!Running
      /\ Len(Course(T)) \in Nat /\ DOMAIN Course(T) = 1..Len(Course(T))
      /\ Ordered(p) /\ Traces(p) /\ EmptyStays(p) /\ First(p) /\ Selects(p) /\ Readies(p)
  <2>1. script \in DOMAIN Scripts /\ mode \in Fleet!Running
    BY DEF Placing, Fleet!Running
  <2>. QED BY <2>1, LoopsAre, ScriptIs DEF CompleteAt
<1>2. HasRead(p)
  <2>1. p[1] \in 1..Len(Course(T))
    BY <1>1, ReadsAt DEF Ordered, ReadsFirst
  <2>. QED BY <1>1, <2>1 DEF HasRead, Ahead
<1>3. u \in Clients /\ origin.user[u] # None
  BY <1>1, SelectedIs
<1>4. seen[u] \in Fleet!Doc /\ seen[u] # None /\ Descends(u, seen[u])
  BY <1>1, <1>2, <1>3 DEF Traces, AllDescend, Descends
<1>5. \A ss, overs : ~Due(u, ss, overs)
  BY <1>1, DueEnds
<1>6. CASE u \in Fleet!Selected(seen)
  <2>1. Prepared(u)
    BY <1>1, <1>2, <1>6 DEF Readies
  <2>2. user[u] = Wanted(u)
    <3>1. CASE Lists
      BY <1>5, <2>1, <3>1 DEF Prepared, ListReady
    <3>2. CASE ~Lists
      <4>1. NoneListed
        <5> SUFFICES ASSUME NEW k \in 1..phase, LoopDoes(Course(T)[k], {"list"}) PROVE FALSE
          BY <1>1 DEF NoneListed
        <5>1. k \in DOMAIN Course(T)
          BY <1>1
        <5>. QED BY <3>2, <5>1, LoopOfCourse DEF Lists
      <4>. QED BY <1>1, <1>2, <1>3, <3>2, <4>1 DEF Selects, Wanted
    <3>. QED BY <3>1, <3>2
  <2>3. Lists => user[u] = Fleet!After(u, user[u])
    <3>1. Fleet!After(u, Fleet!After(u, seen[u])) = Fleet!After(u, seen[u])
      BY <1>1, <1>4, AfterDoc
    <3>. QED BY <2>2, <3>1 DEF Wanted
  <2>4. MakesFiles /\ (Skips => runs = 1) => FileRight(u)
    <3>1. ~Relisting
      BY <1>1 DEF Relisting
    <3>. QED BY <1>5, <2>1, <3>1 DEF Prepared, FileReady
  <2>. QED BY <2>2, <2>3, <2>4 DEF Completed, FileRight
<1>7. CASE u \notin Fleet!Selected(seen)
  <2>1. user[u] = seen[u]
    BY <1>1, <1>2, <1>3, <1>7 DEF Selects
  <2>2. seen[u] # origin.user[u]
    BY <1>1, <1>3, <1>7, SelectedIs
  <2>3. T.who \in {"holders", "empty"}
    <3>1. T.who \in {"all", "vip", "affected", "holders", "empty"}
      BY <1>1, ScriptIs
    <3>2. u \in Fleet!Known(seen) /\ u \in Fleet!Known(origin.user)
      BY <1>3, <1>4 DEF Fleet!Known
    <3>3. T.who = "affected" => seen[u].list = origin.user[u].list
      BY <1>4 DEF Descends
    <3>. QED BY <1>7, <3>1, <3>2, <3>3 DEF Fleet!Selected, Fleet!S, T
  <2>4. Fleet!After(u, seen[u]) = seen[u]
    <3>1. seen[u] = AfterFirst(u, seen[u])
      BY <1>4, <2>2, <2>3 DEF Descends
    <3>2. T.pick = "all" \/ prev = origin.row
      <4>1. T.who = "holders" => T.pick = "all"
        BY <1>1 DEF Ordered, KeepsSelection
      <4>2. phase > p[1] \/ T.who # "empty" \/ prev = origin.row
        <5> SUFFICES ASSUME T.who = "empty" PROVE prev = origin.row
          OBVIOUS
        <5>1. PICK q \in Places(T.before) :
                /\ Certain(T.before, q, "servers")
                /\ mode = "run" /\ ~Ahead(q) => prev = origin.row
          BY <1>1 DEF EmptyStays
        <5>2. q[1] \in 1..Len(Course(T))
          BY <1>1, <5>1, ReadsAt
        <5>. QED BY <1>1, <5>1, <5>2 DEF Ahead
      <4>3. T.who = "empty" => prev = origin.row
        BY <1>1, <4>2, EmptyReads
      <4>. QED BY <2>3, <4>1, <4>3
    <3>. QED BY <3>1, <3>2, AfterIsFirst
  <2>5. ~(MakesFiles /\ (Skips => runs = 1))
    <3> SUFFICES ASSUME MakesFiles, Skips => runs = 1 PROVE FALSE
      OBVIOUS
    <3>1. FilesFollow(T, p, TRUE, Skips, Last)
      BY <1>1 DEF Ordered
    <3>2. Skips
      BY <2>3, <3>1 DEF FilesFollow
    <3>3. seen = origin.user
      BY <1>1, <1>2, <3>2 DEF First, HasRead
    <3>. QED BY <2>2, <3>3
  <2>. QED BY <2>1, <2>4, <2>5 DEF Completed
<1>. QED BY <1>6, <1>7

\* What is said of a client does not depend on how the script goes on.
LEMMA CompletedStays ==
    ASSUME UNCHANGED <<script, user, row, file, panel, prev, runs>>, NEW u, Completed(u)
    PROVE  Completed(u)'
<1>1. T' = T /\ Lists' = Lists /\ MakesFiles' = MakesFiles /\ Skips' = Skips
  BY DEF T, Lists, MakesFiles, Skips
<1>2. PICK doc, f : doc = user[u] /\ f = file[u]
  OBVIOUS
<1>3. Fleet!After(u, doc)' = Fleet!After(u, doc)
  BY AfterStays
<1>4. Fleet!After(u, user[u])' = Fleet!After(u, doc)'
  BY <1>2
<1>5. PICK b : b = Fleet!Body(doc)
  OBVIOUS
<1>6. Fleet!Body(doc)' = b
  BY <1>5, BodyStays
<1>7. Fleet!Body(user[u])' = Fleet!Body(doc)'
  BY <1>2
<1>8. Fleet!SameFile(f, b)' = Fleet!SameFile(f, b)
  BY DEF Fleet!SameFile
<1>9. Fleet!SameFile(file[u], Fleet!Body(user[u]))' = Fleet!SameFile(f, b)'
  BY <1>2, <1>6, <1>7
<1>. QED BY <1>1, <1>2, <1>3, <1>4, <1>5, <1>8, <1>9 DEF Completed

\* Every step keeps what is on its way.
LEMMA CompleteNext ==
    ASSUME CompleteInv, Fleet!Next
    PROVE  CompleteInv'
<1>1. UNCHANGED <<script, origin>> /\ T' = T /\ Concerned' = Concerned /\ Placing /\ Shape /\ Filed
  <2>1. Placing /\ Shape /\ Filed
    BY DEF CompleteInv
  <2>2. UNCHANGED <<script, origin>>
    BY <2>1, StepIs
  <2>. QED BY <2>1, <2>2 DEF T, Concerned
<1>2. Placing' /\ Shape' /\ Filed'
  BY <1>1, PlacesStep, ShapeStep, FiledNext
<1>3. ASSUME Concerned PROVE \E p \in Places(T.before) : CompleteAt(p)'
  <2>1. PICK p \in Places(T.before) : CompleteAt(p)
    BY <1>3 DEF CompleteInv
  <2>2. /\ Ordered(p) /\ Traces(p) /\ EmptyStays(p) /\ First(p)
        /\ \A u \in Clients : PassedOver(p, u)
        /\ Selects(p) /\ Readies(p)
    BY <2>1 DEF CompleteAt
  <2>3. Ordered(p)' /\ Traces(p)' /\ EmptyStays(p)' /\ First(p)'
    BY <1>1, <2>2, OrderedStays, TracesNext, EmptyNext, FirstNext
  <2>4. \A u \in Clients : PassedOver(p, u)'
    BY <1>1, <2>2, PassedNext
  <2>5. Selects(p)' /\ Readies(p)'
    BY <1>1, <2>2, SelectsNext, ReadiesNext
  <2>. QED BY <2>3, <2>4, <2>5 DEF CompleteAt
<1>4. ASSUME mode' = "ok", ~failing', NEW u, u \in Fleet!Selected(origin.user)' PROVE Completed(u)'
  <2>1. /\ Fleet!Enter /\ mode = "run" /\ left = {} /\ phase = Len(Fleet!Plan)
        /\ UNCHANGED <<user, row, file, panel, prev, runs, failing>>
    <3>1. ~Fleet!Kill /\ ~Fleet!Again
      BY <1>4 DEF Fleet!Kill, Fleet!Again, Fleet!Leave
    <3>2. ASSUME NEW t, NEW i, Fleet!Now(t, i), Fleet!Advance(i) \/ Fleet!Raise(i) \/ Fleet!Leave("back")
          PROVE  FALSE
      BY <1>4, <3>2 DEF Fleet!Now, Fleet!Advance, Fleet!Raise, Fleet!Leave, Fleet!Running
    <3>3. Fleet!Enter
      BY <1>1, <3>1, <3>2, StepIs DEF Acts, Succeeds, Throws, GoesBack
    <3>4. mode = "run" /\ left = {} /\ phase = Len(Fleet!Plan)
      BY <1>4, <3>3 DEF Fleet!Enter, Fleet!Leave, Fleet!Running
    <3>5. UNCHANGED <<user, row, file, panel, prev, runs, failing>>
      BY <3>3 DEF Fleet!Enter, Fleet!world, Fleet!reads, Fleet!notes, Fleet!bounds
    <3>. QED BY <3>3, <3>4, <3>5
  <2>2. u \in Fleet!Selected(origin.user)
    <3>1. PICK us : us = origin.user
      OBVIOUS
    <3>2. Fleet!Selected(us)' = Fleet!Selected(us)
      BY <1>1, <2>1, SelectedStays
    <3>3. Fleet!Selected(origin.user)' = Fleet!Selected(us)'
      BY <1>1, <3>1
    <3>. QED BY <1>4, <3>1, <3>2, <3>3
  <2>3. Completed(u)
    <3>1. CASE Concerned
      BY <1>1, <1>4, <2>1, <2>2, <3>1, Finished DEF CompleteInv
    <3>2. CASE ~Concerned
      BY <3>2 DEF Completed, Concerned, Lists, MakesFiles, Does
    <3>. QED BY <3>1, <3>2
  <2>. QED BY <1>1, <2>1, <2>3, CompletedStays
<1>. QED BY <1>1, <1>2, <1>3, <1>4 DEF CompleteInv

\* So does a step of the tunnels.
LEMMA CompleteStill ==
    ASSUME CompleteInv, UNCHANGED fleetVars
    PROVE  CompleteInv'
<1>1. UNCHANGED <<script, mode, phase, left, item, at, user, row, file, panel, seen, prev, listed,
                  applied, saved, failing, origin, runs>>
  BY DEF fleetVars
<1>2. T' = T /\ (Fleet!Plan)' = Fleet!Plan /\ (Fleet!Over)' = Fleet!Over
  BY NothingMoves
<1>3. /\ Lists' = Lists /\ Concerned' = Concerned /\ MakesFiles' = MakesFiles
      /\ Skips' = Skips /\ Last' = Last /\ ClientLoops' = ClientLoops
  BY <1>1, <1>2 DEF Lists, Concerned, MakesFiles, Skips, Last, ClientLoops
<1>4. ASSUME NEW q PROVE Ahead(q)' = Ahead(q) /\ HasRead(q)' = HasRead(q)
  BY <1>1 DEF Ahead, HasRead
<1>5. Placing' /\ Shape' /\ Filed'
  BY <1>1, <1>2 DEF CompleteInv, Placing, Shape, Filed
<1>6. ASSUME NEW u, NEW doc, Descends(u, doc) PROVE Descends(u, doc)'
  BY <1>1, <1>6 DEF Descends, AfterFirst, WasOn, WasOff, Fleet!Change, Fleet!S, T
<1>7. NoneListed' = NoneListed
  BY <1>1, <1>2 DEF NoneListed
<1>8. \A x, ss, overs : Due(x, ss, overs) => Due(x, ss, overs)'
  BY NothingMoves
<1>9. \A u : Wanted(u)' = Wanted(u)
  BY <1>1, WantedSame
<1>10. ASSUME NEW p, CompleteAt(p) PROVE CompleteAt(p)'
  <2>1. /\ Ordered(p) /\ Traces(p) /\ EmptyStays(p) /\ First(p)
        /\ \A u \in Clients : PassedOver(p, u)
        /\ Selects(p) /\ Readies(p)
    BY <1>10 DEF CompleteAt
  <2>2. Ordered(p)'
    BY <1>1, <2>1, OrderedStays
  <2>3. Traces(p)'
    <3>1. PICK us, ss : us = user /\ ss = seen
      OBVIOUS
    <3>2. AllDescend(user) => AllDescend(user)'
      BY <1>1, <1>6, <3>1 DEF AllDescend
    <3>3. AllDescend(seen) => AllDescend(seen)'
      BY <1>1, <1>6, <3>1 DEF AllDescend
    <3>. QED BY <1>1, <1>4, <2>1, <3>2, <3>3 DEF Traces
  <2>4. EmptyStays(p)'
    BY <1>1, <1>2, <1>4, <2>1 DEF EmptyStays
  <2>5. First(p)'
    BY <1>1, <1>3, <1>4, <2>1 DEF First
  <2>6. \A u \in Clients : PassedOver(p, u)'
    <3>1. \A u \in Clients : Fleet!Change(u)' = Fleet!Change(u)
      BY <1>1 DEF Fleet!Change, Fleet!S
    <3>2. ASSUME NEW u \in Clients, FirstBody(u) PROVE FirstBody(u)'
      BY <1>1, <1>3, <3>2 DEF FirstBody, WasOn
    <3>. QED BY <1>1, <1>2, <1>3, <1>4, <2>1, <3>1, <3>2 DEF PassedOver
  <2>7. Selects(p)'
    BY <1>1, <1>2, <1>4, <1>7, <2>1, NothingMoves DEF Selects
  <2>8. ASSUME NEW u, Prepared(u) PROVE Prepared(u)'
    <3>1. PICK overs : overs = ClientLoops
      OBVIOUS
    <3>2. \A ss : Due(u, ss, ClientLoops) => Due(u, ss, ClientLoops)'
      <4>1. \A ss : Due(u, ss, overs) => Due(u, ss, overs)'
        BY <1>8
      <4>. QED BY <1>1, <3>1, <4>1, SameDue
    <3>3. ListReady(u) => ListReady(u)'
      BY <1>1, <1>9, <3>2 DEF ListReady
    <3>4. FileReady(u) => FileReady(u)'
      <4>1. (Relisting => Relisting') /\ (Relisted => Relisted')
        BY <1>1, <1>2 DEF Relisting, Relisted
      <4>2. FileRight(u) => FileRight(u)'
        BY <1>1, <1>9, RightStays
      <4>3. Due(u, {"refile"}, {"relisted"}) => Due(u, {"refile"}, {"relisted"})'
        BY <1>8
      <4>4. PICK ss : ss = FileWrites
        OBVIOUS
      <4>. QED BY <3>2, <4>1, <4>2, <4>3, <4>4 DEF FileReady
    <3>5. ListedReady(u) => ListedReady(u)'
      BY <1>1, <1>2, <1>4, <1>9 DEF ListedReady
    <3>. QED BY <1>1, <1>2, <1>3, <2>8, <3>3, <3>4, <3>5 DEF Prepared
  <2>9. Readies(p)'
    <3>1. Fleet!Selected(seen)' = Fleet!Selected(seen)
      BY NothingMoves
    <3>. QED BY <1>1, <1>4, <2>1, <2>8, <3>1 DEF Readies
  <2>. QED BY <2>2, <2>3, <2>4, <2>5, <2>6, <2>7, <2>9 DEF CompleteAt
<1>11. ASSUME NEW u, Completed(u) PROVE Completed(u)'
  BY <1>1, <1>11, CompletedStays
<1>12. Fleet!Selected(origin.user)' = Fleet!Selected(origin.user)
  <2>1. PICK us : us = origin.user
    OBVIOUS
  <2>2. Fleet!Selected(us)' = Fleet!Selected(us)
    BY NothingMoves
  <2>3. Fleet!Selected(origin.user)' = Fleet!Selected(us)'
    BY <1>1, <2>1
  <2>. QED BY <2>1, <2>2, <2>3
<1>. QED BY <1>1, <1>2, <1>3, <1>5, <1>10, <1>11, <1>12 DEF CompleteInv

\* What is said of each client is what is said of a script that says ok.
LEMMA CompleteSafe ==
    ASSUME CompleteInv
    PROVE  Fleet!OkIsComplete
<1> SUFFICES ASSUME mode = "ok", ~failing, NEW u \in Fleet!Selected(origin.user)
             PROVE  /\ Fleet!Has("list") => user[u] = Fleet!After(u, user[u])
                    /\ /\ \E s \in {"file", "fileOrNote", "refile", "sync"} : Fleet!Has(s)
                       /\ script # "FixOldClients"
                       /\ script \in Fleet!SkipsChanged => runs = 1
                       => Fleet!SameFile(file[u], Fleet!Body(user[u]))
  BY DEF Fleet!OkIsComplete
<1>1. Completed(u)
  BY DEF CompleteInv
<1>2. Fleet!Has("list") => Lists
  BY HasDoes DEF Lists
<1>3. ASSUME NEW s \in {"file", "fileOrNote", "refile", "sync"}, Fleet!Has(s)
      PROVE  Does(Course(T), FileWrites)
  <2>1. Does(Course(T), {s})
    BY <1>3, HasDoes
  <2>. QED BY <2>1 DEF Does, FileWrites
<1>. QED BY <1>1, <1>2, <1>3 DEF Completed, MakesFiles, Skips

\* A script that says ok, and has noted no failure, has left the clients it
\* works on with the list it wants, and with files that show what they hold,
\* also where an earlier run of it was killed or failed.
THEOREM OkIsDone == MCSpec => []OkIsComplete
<1>1. MCInit => CompleteInv
  BY CompleteInit DEF MCInit
<1>2. CompleteInv /\ [MCNext]_<<part, vars, fleetVars>> => CompleteInv'
  <2> SUFFICES ASSUME CompleteInv, [MCNext]_<<part, vars, fleetVars>> PROVE CompleteInv'
    OBVIOUS
  <2>1. CASE Fleet!Next
    BY <2>1, CompleteNext
  <2>2. CASE UNCHANGED fleetVars
    BY <2>2, CompleteStill
  <2>. QED BY <2>1, <2>2 DEF MCNext, Moves
<1>3. CompleteInv => OkIsComplete
  BY CompleteSafe DEF OkIsComplete
<1>. QED BY <1>1, <1>2, <1>3, PTL DEF MCSpec
=============================================================================
