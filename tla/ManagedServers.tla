--------------------------- MODULE ManagedServers ---------------------------
(***************************************************************************)
(* A server the panel manages over SSH: its row, the Xray tunnels whose    *)
(* rows and systemd units are changed one after the other                  *)
(* (lib/managed-xray.js, lib/managed-server-ssh.js), the links to a tunnel *)
(* that clients are given (routes/admin.js), and the keys of its Outline   *)
(* service (lib/outline-management.js, lib/managed-servers.js).            *)
(*                                                                         *)
(* A step is one SQL statement, one call of the Outline API or one SSH     *)
(* command as the host runs it.  A command whose request no longer waits   *)
(* for it, after a timeout or a restart of the panel, may still run later. *)
(***************************************************************************)
EXTENDS Naturals, FiniteSets

CONSTANTS
    Requests,     \* HTTP requests that may be in flight at once
    Tunnels,      \* bound: ids createId('xray') may return
    Configs,      \* what a tunnel's configuration file may say
    Users,        \* clients that may be given a link
    Keys,         \* bound: access keys Outline may make
    MaxFaults,    \* bound on timeouts, failed statements and restarts
    None

ASSUME MaxFaultsAssumption == MaxFaults \in Nat
ASSUME NoneAssumption == None \notin Tunnels \cup Configs \cup Users \cup Keys

VARIABLES
    server,      \* is there a row in managed_servers?
    tunnel,      \* managed_xray_tunnels
    unit,        \* the configuration file of each tunnel's unit on the host
    down,        \* tunnels whose unit did not come up when it was last started
    links,       \* extraSubscriptionLines: tunnels a user has a link to
    key,         \* outline_keys
    remoteKey,   \* keys that Outline has
    limited,     \* ... and for which it was given their limit
    late,        \* commands nobody waits for any more
    req,         \* what each request in flight has read and does next
    overlapped,  \* tunnels two requests, or a late command, worked on at once
    stopped,     \* tunnels a request stopped halfway with
    refused,     \* tunnels whose last command the host answered with an error
    faults       \* timeouts, failed statements and restarts so far

rows == <<server, tunnel, links>>
outline == <<key, remoteKey, limited>>
host == <<unit, down>>
history == <<overlapped, stopped, refused>>
vars == <<rows, host, outline, late, req, history, faults>>

-----------------------------------------------------------------------------

Row == [config : Configs, status : {"pending", "active", "error"}]
ASSUME NoneIsNoRow == None \notin Row
Ops == {"create", "update", "restart", "delete", "remove"}
Command == [op : Ops, tunnel : Tunnels, config : Configs \cup {None}]

Stages == {"idle", "insert", "send", "await", "write", "error", "reread",
           "link", "link-write", "limit", "save", "key-delete", "key-drop"}
Register == [at : Stages, op : Ops, tunnel : Tunnels \cup {None},
             config : Configs \cup {None}, todo : SUBSET Users,
             user : Users \cup {None}, seen : SUBSET Tunnels, key : Keys \cup {None}]
Idle == [at |-> "idle", op |-> "create", tunnel |-> None, config |-> None,
         todo |-> {}, user |-> None, seen |-> {}, key |-> None]

TypeOK ==
    /\ server \in BOOLEAN
    /\ tunnel \in [Tunnels -> Row \cup {None}]
    /\ unit \in [Tunnels -> Configs \cup {None}]
    /\ links \in [Users -> SUBSET Tunnels]
    /\ key \subseteq Keys /\ remoteKey \subseteq Keys /\ limited \subseteq Keys
    /\ late \subseteq Command
    /\ req \in [Requests -> Register]
    /\ down \subseteq Tunnels
    /\ overlapped \subseteq Tunnels /\ stopped \subseteq Tunnels /\ refused \subseteq Tunnels
    /\ faults \in 0 .. MaxFaults

Init ==
    /\ server = TRUE
    /\ tunnel = [t \in Tunnels |-> None]
    /\ unit = [t \in Tunnels |-> None]
    /\ links = [u \in Users |-> {}]
    /\ key = {} /\ remoteKey = {} /\ limited = {}
    /\ late = {}
    /\ req = [r \in Requests |-> Idle]
    /\ down = {}
    /\ overlapped = {} /\ stopped = {} /\ refused = {}
    /\ faults = 0

-----------------------------------------------------------------------------
(* Requests *)

At(r, stage) == req[r].at = stage
Goto(r, register) == req' = [req EXCEPT ![r] = register]
Move(r, stage) == Goto(r, [req[r] EXCEPT !.at = stage])
Finish(r) == Goto(r, Idle)
LocalStep == UNCHANGED <<rows, host, outline, late, history, faults>>

Fault == faults < MaxFaults /\ faults' = faults + 1

Working(r, t) == req[r].tunnel = t
UnderWay(t) == (\E r \in Requests : Working(r, t)) \/ (\E c \in late : c.tunnel = t)

\* Ids are random: one that nothing remembers is as good as new.
Free(t) ==
    /\ tunnel[t] = None /\ unit[t] = None /\ ~UnderWay(t)
    /\ \A u \in Users : t \notin links[u]
    /\ \A r \in Requests : t \notin req[r].seen
    /\ t \notin down \cup overlapped \cup stopped \cup refused

\* A request that has found the tunnel sends a command for it.
Begin(r, op, t, config) ==
    /\ At(r, "idle")
    /\ Goto(r, [Idle EXCEPT !.at = "send", !.op = op, !.tunnel = t, !.config = config])
    /\ overlapped' = IF UnderWay(t) THEN overlapped \cup {t} ELSE overlapped
    /\ UNCHANGED <<rows, host, outline, late, stopped, refused, faults>>

Stop(r) == stopped' = stopped \cup ({req[r].tunnel} \cap Tunnels)

-----------------------------------------------------------------------------
(* Xray tunnels *)

\* POST .../xray/tunnels, with Xray installed and the clients chosen ...
CreateBegin(r, t, config, clients) ==
    /\ At(r, "idle")
    /\ server
    /\ Free(t)
    /\ Goto(r, [Idle EXCEPT !.at = "insert", !.op = "create", !.tunnel = t,
                            !.config = config, !.todo = clients])
    /\ LocalStep

\* ... INSERT a pending row, unless the server's row has gone.
CreateInsert(r) ==
    /\ At(r, "insert")
    /\ IF server
       THEN /\ tunnel' = [tunnel EXCEPT ![req[r].tunnel] =
                            [config |-> req[r].config, status |-> "pending"]]
            /\ Move(r, "send")
       ELSE Finish(r) /\ UNCHANGED tunnel
    /\ UNCHANGED <<server, links, host, outline, late, history, faults>>

Update(r, t, config) == tunnel[t] # None /\ Begin(r, "update", t, config)
RestartTunnel(r, t) == tunnel[t] # None /\ Begin(r, "restart", t, None)
Delete(r, t) == tunnel[t] # None /\ Begin(r, "delete", t, None)

\* DELETE .../services/:type/:name with the name of a tunnel's unit.
RemoveService(r, t) == unit[t] # None /\ Begin(r, "remove", t, None)

\* A failed creation notes the error in its row.  (What a creation that answers
\* before its error, and an update that is noted all the same, would do.)
AfterFailureSilent(r) == IF req[r].op = "create" THEN Move(r, "reread") ELSE Finish(r)
AfterFailureNoted(r) ==
    \/ req[r].op = "create" /\ Move(r, "error")
    \/ req[r].op = "update" /\ Move(r, "write")
    \/ req[r].op \notin {"create", "update"} /\ Finish(r)
AfterFailure(r) == IF req[r].op = "create" THEN Move(r, "error") ELSE Finish(r)

\* sshCommand reads the server's row first.
Send(r) ==
    /\ At(r, "send")
    /\ IF server THEN Move(r, "await") ELSE AfterFailure(r)
    /\ LocalStep

-----------------------------------------------------------------------------
(* The host *)

Applies(c) == c.op \in {"create", "update"}
Removes(c) == c.op \in {"delete", "remove"}

\* The unit runs, with the new configuration if there is one, or is gone.
RunsWell(c) ==
    /\ down' = down \ {c.tunnel}
    /\ \/ Applies(c) /\ unit' = [unit EXCEPT ![c.tunnel] = c.config]
       \/ Removes(c) /\ unit' = [unit EXCEPT ![c.tunnel] = None]
       \/ c.op = "restart" /\ unit[c.tunnel] # None /\ UNCHANGED unit

\* The unit does not come up again; or the configuration is refused before
\* anything is touched; or the unit does not come up with it, and the file
\* before it is put back, if there was one (also that of a unit removed by its
\* name), and the unit started with it, whether that helps or not.
RunsBadly(c) ==
    \/ c.op = "restart" /\ UNCHANGED unit /\ down' = down \cup {c.tunnel}
    \/ Applies(c) /\ UNCHANGED host
    \/ /\ Applies(c)
       /\ IF unit[c.tunnel] # None THEN UNCHANGED unit
          ELSE \E config \in IF c.op = "create" THEN {c.config} ELSE Configs :
                  unit' = [unit EXCEPT ![c.tunnel] = config]
       /\ down' \in {down \ {c.tunnel}, down \cup {c.tunnel}}

CommandOf(r) == [op |-> req[r].op, tunnel |-> req[r].tunnel, config |-> req[r].config]

Run(r) ==
    /\ At(r, "await")
    /\ RunsWell(CommandOf(r))
    /\ IF req[r].op = "remove"
       THEN Finish(r) /\ Stop(r)
       ELSE Move(r, "write") /\ UNCHANGED stopped
    /\ refused' = refused \ {req[r].tunnel}
    /\ UNCHANGED <<rows, outline, late, overlapped, faults>>

\* A refused update leaves its file behind if there was none before.
RunFails(r) ==
    /\ At(r, "await")
    /\ RunsBadly(CommandOf(r))
    /\ IF req[r].op = "update" /\ unit' # unit THEN Stop(r) ELSE UNCHANGED stopped
    /\ AfterFailure(r)
    /\ refused' = refused \cup {req[r].tunnel}
    /\ UNCHANGED <<rows, outline, late, overlapped, faults>>

\* What a deletion that ignores an error of the host would do.
GiveUpGoesOn(r) ==
    /\ At(r, "await")
    /\ Fault
    /\ late' = late \cup {CommandOf(r)}
    /\ Stop(r)
    /\ IF req[r].op = "delete" THEN Move(r, "write") ELSE AfterFailure(r)
    /\ UNCHANGED <<rows, host, outline, overlapped, refused>>

\* A timeout or a lost connection: the command may still run.
GiveUp(r) ==
    /\ At(r, "await")
    /\ Fault
    /\ late' = late \cup {CommandOf(r)}
    /\ Stop(r)
    /\ AfterFailure(r)
    /\ UNCHANGED <<rows, host, outline, overlapped, refused>>

RunLate(c) ==
    /\ c \in late
    /\ RunsWell(c) \/ RunsBadly(c)
    /\ late' = late \ {c}
    /\ UNCHANGED <<rows, outline, req, history, faults>>

-----------------------------------------------------------------------------
(* What the command did is noted in the row, which may have gone *)

Noted(t, config, status) ==
    IF tunnel[t] = None THEN tunnel
    ELSE [tunnel EXCEPT ![t] = [config |-> config, status |-> status]]

Config(t) == IF tunnel[t] = None THEN None ELSE tunnel[t].config

Write(r) ==
    LET t == req[r].tunnel IN
    /\ At(r, "write")
    /\ \/ req[r].op = "create" /\ tunnel' = Noted(t, Config(t), "active") /\ Move(r, "reread")
       \/ req[r].op = "restart" /\ tunnel' = Noted(t, Config(t), "active") /\ Finish(r)
       \/ req[r].op = "update" /\ tunnel' = Noted(t, req[r].config, "active") /\ Finish(r)
       \/ req[r].op = "delete" /\ tunnel' = [tunnel EXCEPT ![t] = None] /\ Finish(r)
    /\ UNCHANGED <<server, links, host, outline, late, history, faults>>

WriteError(r) ==
    LET t == req[r].tunnel IN
    /\ At(r, "error")
    /\ tunnel' = Noted(t, Config(t), "error")
    /\ Finish(r)
    /\ UNCHANGED <<server, links, host, outline, late, history, faults>>

\* The statement fails.
WriteFails(r) ==
    /\ At(r, "write")
    /\ Fault
    /\ Stop(r)
    /\ AfterFailure(r)
    /\ UNCHANGED <<rows, host, outline, late, overlapped, refused>>

-----------------------------------------------------------------------------
(* Links to a new tunnel.  Its row in the server registry is never made:   *)
(* publishManagedXrayServer throws on every call, and is caught.           *)

\* getTunnel: without its row nobody gets a link.
Reread(r) ==
    /\ At(r, "reread")
    /\ IF tunnel[req[r].tunnel] = None THEN Finish(r) ELSE Move(r, "link")
    /\ LocalStep

Link(r, u) ==
    /\ At(r, "link")
    /\ u \in req[r].todo
    /\ Goto(r, [req[r] EXCEPT !.at = "link-write", !.user = u, !.seen = links[u],
                              !.todo = @ \ {u}])
    /\ LocalStep

\* The whole list is written back.
LinkWrite(r) ==
    /\ At(r, "link-write")
    /\ links' = [links EXCEPT ![req[r].user] = req[r].seen \cup {req[r].tunnel}]
    /\ Move(r, "link")
    /\ UNCHANGED <<server, tunnel, host, outline, late, history, faults>>

LinksDone(r) ==
    /\ At(r, "link")
    /\ req[r].todo = {}
    /\ Finish(r)
    /\ LocalStep

-----------------------------------------------------------------------------
(* Outline keys, made with a limit *)

KeyCreate(r, k) ==
    /\ At(r, "idle")
    /\ server
    /\ k \notin remoteKey \cup key
    /\ \A q \in Requests : req[q].key # k
    /\ remoteKey' = remoteKey \cup {k}
    /\ Goto(r, [Idle EXCEPT !.at = "limit", !.key = k])
    /\ UNCHANGED <<rows, host, key, limited, late, history, faults>>

KeyLimitUnchecked(r) ==
    /\ At(r, "limit")
    /\ Move(r, "save")
    /\ LocalStep

\* An error of the API ends the request.
KeyLimit(r) ==
    /\ At(r, "limit")
    /\ \/ req[r].key \in remoteKey /\ limited' = limited \cup {req[r].key} /\ Move(r, "save")
       \/ req[r].key \notin remoteKey /\ Finish(r) /\ UNCHANGED limited
    /\ UNCHANGED <<rows, host, key, remoteKey, late, history, faults>>

KeySave(r) ==
    /\ At(r, "save")
    /\ key' = IF server THEN key \cup {req[r].key} ELSE key
    /\ Finish(r)
    /\ UNCHANGED <<rows, host, remoteKey, limited, late, history, faults>>

KeyDeleteBegin(r, k) ==
    /\ At(r, "idle")
    /\ server
    /\ k \in key
    /\ Goto(r, [Idle EXCEPT !.at = "key-delete", !.key = k])
    /\ LocalStep

\* Outline answers 404 for a key it has not, and the record stays.
KeyDelete(r) ==
    LET k == req[r].key IN
    /\ At(r, "key-delete")
    /\ \/ k \in remoteKey /\ Move(r, "key-drop")
       \/ k \notin remoteKey /\ Finish(r)
    /\ remoteKey' = remoteKey \ {k}
    /\ limited' = limited \ {k}
    /\ UNCHANGED <<rows, host, key, late, history, faults>>

KeyDrop(r) ==
    /\ At(r, "key-drop")
    /\ key' = key \ {req[r].key}
    /\ Finish(r)
    /\ UNCHANGED <<rows, host, remoteKey, limited, late, history, faults>>

-----------------------------------------------------------------------------

\* The row goes with everything that refers to it; the host is left alone.
DeleteServer ==
    /\ server
    /\ server' = FALSE
    /\ tunnel' = [t \in Tunnels |-> None]
    /\ key' = {}
    /\ UNCHANGED <<links, host, remoteKey, limited, late, req, history, faults>>

\* A statement or a call fails, and its request with it, but for the links: the
\* client it fails for is counted and skipped.
Fails(r) ==
    /\ req[r].at \notin {"idle", "await", "write"}
    /\ Fault
    /\ Stop(r)
    /\ \/ At(r, "send") /\ AfterFailure(r)
       \/ At(r, "link") /\ \E u \in req[r].todo : Goto(r, [req[r] EXCEPT !.todo = @ \ {u}])
       \/ At(r, "link-write") /\ Move(r, "link")
       \/ req[r].at \notin {"send", "link", "link-write"} /\ Finish(r)
    /\ UNCHANGED <<rows, host, outline, late, overlapped, refused>>

Restart ==
    /\ Fault
    /\ late' = late \cup {CommandOf(r) : r \in {q \in Requests : At(q, "await")}}
    /\ stopped' = stopped \cup ({req[r].tunnel : r \in Requests} \cap Tunnels)
    /\ req' = [r \in Requests |-> Idle]
    /\ UNCHANGED <<rows, host, outline, overlapped, refused>>

-----------------------------------------------------------------------------

Arrive(r) ==
    \/ \E t \in Tunnels, c \in Configs :
         \/ \E clients \in SUBSET Users : CreateBegin(r, t, c, clients)
         \/ Update(r, t, c)
    \/ \E t \in Tunnels : RestartTunnel(r, t) \/ Delete(r, t) \/ RemoveService(r, t)
    \/ \E k \in Keys : KeyCreate(r, k) \/ KeyDeleteBegin(r, k)

Continue(r) ==
    \/ CreateInsert(r) \/ Send(r) \/ Run(r) \/ RunFails(r)
    \/ Write(r) \/ WriteError(r)
    \/ Reread(r) \/ (\E u \in Users : Link(r, u)) \/ LinkWrite(r) \/ LinksDone(r)
    \/ KeyLimit(r) \/ KeySave(r) \/ KeyDelete(r) \/ KeyDrop(r)

Next ==
    \/ \E r \in Requests :
         Arrive(r) \/ Continue(r) \/ GiveUp(r) \/ WriteFails(r) \/ Fails(r)
    \/ \E c \in late : RunLate(c)
    \/ DeleteServer \/ Restart

Spec == Init /\ [][Next]_vars

-----------------------------------------------------------------------------
(* Properties *)

\* A unit the panel has put on a host stays known to it, so that an admin can
\* remove it: wherever a creation, an update or a deletion stops, the row is
\* there, unless it was deleted while another command was under way or with
\* the whole server.
UnitsAreKnown ==
    \A t \in Tunnels : unit[t] # None =>
        tunnel[t] # None \/ ~server \/ t \in overlapped

\* A tunnel shown as active has the configuration its row shows, also after
\* updates the host refused, and its unit came up when it was last started
\* unless an admin was answered with an error since (the row is not told: it
\* keeps 'active' after a failed restart); unless requests for it overlapped or
\* one stopped between the host and the row.
ActiveRuns ==
    \A t \in Tunnels :
        \/ tunnel[t] = None
        \/ tunnel[t].status # "active"
        \/ t \in overlapped \cup stopped
        \/ \E r \in Requests : Working(r, t) /\ At(r, "write")
        \/ unit[t] = tunnel[t].config /\ (t \in down => t \in refused)

\* No client is given a link to a tunnel whose creation failed.
LinksWork ==
    \A u \in Users, t \in Tunnels :
        t \in links[u] /\ tunnel[t] # None => tunnel[t].status = "active"

\* A key the panel lists has the limit it was made with: a creation that stops
\* between Outline's calls leaves a key without one, but never lists it.
ListedKeysAreLimited == \A k \in key : k \in remoteKey => k \in limited
=============================================================================
