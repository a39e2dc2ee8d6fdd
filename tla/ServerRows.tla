----------------------------- MODULE ServerRows -----------------------------
(***************************************************************************)
(* The rows of servers and clients that administrators edit                *)
(* (routes/admin.js over lib/db-store.js): addresses, names and ports of   *)
(* all servers of a CDN, single servers, their deletion, the servers and   *)
(* the addresses of a client, and new clients of a dealer with a limit.    *)
(*                                                                         *)
(* Most handlers read a row, or all rows, and write whole rows back some   *)
(* statements later.  What the edits mean when they do not overlap is kept *)
(* beside, in `meant' and `meantIps'; `beside' holds the rows that others  *)
(* have written since a request began, `broken' the rows whose last writer *)
(* had read them before somebody else wrote them.                          *)
(***************************************************************************)
EXTENDS Naturals, FiniteSets

CONSTANTS
    Servers, Clients,
    Requests,      \* requests that may be in flight at once
    Values,        \* an address or a host name
    ClientLimit,   \* of the dealer; 0 for no limit
    MaxEdits,      \* bound on the requests
    None

ASSUME LimitsAssumption == ClientLimit \in Nat /\ MaxEdits \in Nat
ASSUME ClientsAssumption == IsFiniteSet(Clients)

VARIABLES
    server,        \* row of each server, None without
    client,        \* row of each client: its servers, its addresses for them, whether it is active
    gone,          \* clients that were deleted
    req,           \* what each request does next
    edits,
    meant, meantIps, beside, broken

rows == <<server, client, gone>>
ghosts == <<meant, meantIps, broken>>
vars == <<rows, req, edits, ghosts, beside>>

-----------------------------------------------------------------------------

Fields == {"ip", "host", "port"}
Names == {s \in Servers : server[s] # None}
People == {c \in Clients : client[c] # None}

New == [ip |-> 0, host |-> 0, port |-> 0, enabled |-> TRUE]

Address == Values \cup {0}
Row == [ip : Address, host : Address, port : Address, enabled : BOOLEAN]
Addresses == [Servers -> Values \cup {None}]
Person == [servers : SUBSET Servers, ips : Addresses, active : BOOLEAN]
ASSUME NoneAssumption == None \notin Row \cup Person \cup Values

\* getEnabledServers
Enabled == {s \in Names : server[s].enabled}
NoIps == [s \in Servers |-> None]

\* `all' and `people' are the rows the request has read, or was sent, `todo'
\* those it still has to write.
Idle == [at |-> "idle", op |-> "patch", field |-> "ip", value |-> None, scope |-> {}, who |-> None,
         all |-> [s \in Servers |-> None], people |-> [c \in Clients |-> None], todo |-> {}]

Stages == {"idle", "list", "upsert", "clients", "override", "get", "update",
           "using", "unlist", "drop", "assign", "choose", "insert"}
Ops == {"patch", "cdn", "override", "addresses", "force", "delete", "assign", "create"}
Register == [at : Stages, op : Ops, field : Fields \cup {"enabled"},
             value : Values \cup BOOLEAN \cup {None},
             scope : SUBSET Servers, who : Servers \cup {None},
             all : [Servers -> Row \cup {None}], people : [Clients -> Person \cup {None}],
             todo : SUBSET (Servers \cup Clients)]

At(r, stage) == req[r].at = stage
Set(r, state) == req' = [req EXCEPT ![r] = state]

Init ==
    /\ server = [s \in Servers |-> New]
    /\ client \in [Clients -> {None, [servers |-> Servers, ips |-> NoIps, active |-> TRUE]}]
    /\ Cardinality(People) <= 1 /\ gone = {}
    /\ req = [r \in Requests |-> Idle]
    /\ edits = 0
    /\ meant = server /\ meantIps = [c \in Clients |-> NoIps]
    /\ beside = [r \in Requests |-> {}] /\ broken = {}

\* What a request may read before somebody else writes it: the row of a
\* server, two fields of a client.
ServersOf(c) == <<c, "servers">>
AddressesOf(c) == <<c, "ips">>

Things == Servers \cup Clients \cup (Clients \X {"servers", "ips"})

TypeOK ==
    /\ server \in [Servers -> Row \cup {None}] /\ meant \in [Servers -> Row \cup {None}]
    /\ client \in [Clients -> Person \cup {None}] /\ meantIps \in [Clients -> Addresses]
    /\ gone \subseteq Clients
    /\ req \in [Requests -> Register]
    /\ edits \in 0 .. MaxEdits
    /\ beside \in [Requests -> SUBSET Things] /\ broken \subseteq Things

\* r writes what `written' names.
Writes(r, written, spoilt) ==
    /\ beside' = [o \in Requests |-> IF o = r \/ At(o, "idle") THEN beside[o] ELSE beside[o] \cup written]
    /\ broken' = broken \cup spoilt
Overtaken(r, written) == written \cap beside[r]
ReadsOnly == UNCHANGED <<rows, ghosts, beside>>

Begin(r, state) ==
    /\ At(r, "idle")
    /\ edits < MaxEdits
    /\ edits' = edits + 1
    /\ Set(r, state)
    /\ beside' = [beside EXCEPT ![r] = {}]
    /\ UNCHANGED <<rows, ghosts>>

\* Nothing more to write: on to the next stage.
Rest(r, todo, stage) ==
    Set(r, IF todo # {} THEN [req[r] EXCEPT !.todo = todo]
           ELSE IF stage = "idle" THEN Idle ELSE [req[r] EXCEPT !.at = stage, !.todo = {}])

-----------------------------------------------------------------------------
(* All servers of a CDN: PUT cdn-services/:provider/address-ips, sni-hosts *)
(* and ports, POST cdn-services/cloudflare/domains                         *)

EditCdn(r, field, value, scope) ==
    Begin(r, [Idle EXCEPT !.at = "list", !.op = "cdn", !.field = field, !.value = value, !.scope = scope])

EditIps(r, value, scope) == EditCdn(r, "ip", value, scope)
EditHosts(r, value, scope) == EditCdn(r, "host", value, scope)
EditPorts(r, value, scope) == EditCdn(r, "port", value, scope)

\* A domain may be added without servers, or for some.
AddDomain(r, value, scope) == EditCdn(r, "host", value, scope)

\* listServers, for a CDN or for PUT settings/address-ips, which skips the
\* servers that have the address.
List(r) ==
    /\ At(r, "list")
    /\ LET targets == IF req[r].op = "cdn" THEN Enabled \cap req[r].scope
                      ELSE {s \in Names : server[s].ip # req[r].value}
       IN  Set(r, IF targets = {} THEN Idle
                  ELSE [req[r] EXCEPT !.at = IF req[r].op = "cdn" THEN "upsert" ELSE "get",
                                      !.all = server, !.scope = targets, !.todo = targets])
    /\ ReadsOnly /\ UNCHANGED edits

\* A write of the edited field alone ...
EditedOnly(row, field, value) == [New EXCEPT ![field] = value]

\* ... and of the row as it was read.
Edited(row, field, value) == [row EXCEPT ![field] = value]

\* upsertServer: what was listed replaces what is there now, and a row that
\* is there no more is inserted again.
Upsert(r) ==
    /\ At(r, "upsert")
    /\ \E s \in req[r].todo :
         /\ server' = [server EXCEPT ![s] = Edited(req[r].all[s], req[r].field, req[r].value)]
         /\ meant' = [meant EXCEPT ![s] = IF @ = None THEN None ELSE [@ EXCEPT ![req[r].field] = req[r].value]]
         /\ Writes(r, {s}, Overtaken(r, {s}))
         /\ Rest(r, req[r].todo \ {s}, IF req[r].field = "ip" THEN "clients" ELSE "idle")
    /\ UNCHANGED <<client, gone, edits, meantIps>>

\* The addresses are given to the active clients, too.
ListClients(r) ==
    /\ At(r, "clients")
    /\ LET changed == {c \in People : client[c].active /\ \E s \in req[r].scope : client[c].ips[s] # req[r].value}
       IN  Set(r, IF changed = {} THEN Idle
                  ELSE [req[r] EXCEPT !.at = "override", !.people = client, !.todo = changed])
    /\ ReadsOnly /\ UNCHANGED edits

Overridden(ips, scope, value) == [s \in Servers |-> IF s \in scope THEN value ELSE ips[s]]

\* updateUser with the whole map of addresses.
Override(r) ==
    /\ At(r, "override")
    /\ \E c \in req[r].todo :
         /\ IF client[c] = None THEN UNCHANGED <<client, meantIps, beside, broken>>
            ELSE /\ client' = [client EXCEPT ![c].ips =
                                  Overridden(req[r].people[c].ips, req[r].scope, req[r].value)]
                 /\ meantIps' = [meantIps EXCEPT ![c] = Overridden(@, req[r].scope, req[r].value)]
                 /\ Writes(r, {AddressesOf(c)}, Overtaken(r, {AddressesOf(c)}))
         /\ Rest(r, req[r].todo \ {c}, "idle")
    /\ UNCHANGED <<server, gone, edits, meant>>

\* PUT users/:id/cdn-address-ips: for one client and its servers of some
\* CDNs, None for no address of its own.
EditClientIps(r, c, scope, value) ==
    /\ c \in People
    /\ scope \subseteq client[c].servers
    /\ Begin(r, [Idle EXCEPT !.at = "override", !.op = "override", !.value = value, !.scope = scope,
                             !.people = client, !.todo = {c}])

-----------------------------------------------------------------------------
(* One server, and PUT settings/address-ips: updateServer *)

EditServer(r, s, field, value) ==
    Begin(r, [Idle EXCEPT !.at = "get", !.field = field, !.value = value, !.todo = {s}])

EditAddresses(r, value) ==
    Begin(r, [Idle EXCEPT !.at = "list", !.op = "addresses", !.value = value])

Get(r) ==
    /\ At(r, "get")
    /\ \E s \in req[r].todo :
         IF server[s] = None THEN Rest(r, req[r].todo \ {s}, "idle")
         ELSE Set(r, [req[r] EXCEPT !.at = "update", !.who = s, !.all[s] = server[s]])
    /\ beside' = [beside EXCEPT ![r] = {}]
    /\ UNCHANGED <<rows, ghosts, edits>>

\* The whole row, if it is still there.
Update(r) ==
    /\ At(r, "update")
    /\ LET s == req[r].who
       IN  /\ IF server[s] = None THEN UNCHANGED <<server, meant, beside, broken>>
              ELSE /\ server' = [server EXCEPT ![s] = Edited(req[r].all[s], req[r].field, req[r].value)]
                   /\ meant' = [meant EXCEPT ![s] = IF @ = None THEN None
                                                    ELSE [@ EXCEPT ![req[r].field] = req[r].value]]
                   /\ Writes(r, {s}, Overtaken(r, {s}))
           /\ Set(r, IF req[r].todo = {s} THEN Idle
                     ELSE [req[r] EXCEPT !.at = "get", !.who = None, !.todo = @ \ {s}])
    /\ UNCHANGED <<client, gone, edits, meantIps>>

-----------------------------------------------------------------------------
(* Deletion of a server, and the servers of a client *)

DeleteServer(r, s, force) ==
    Begin(r, [Idle EXCEPT !.at = "using", !.op = IF force THEN "force" ELSE "delete", !.scope = {s}])

\* Without force a server that clients use is not deleted.
Using(r) ==
    /\ At(r, "using")
    /\ LET using == {c \in People : req[r].scope \subseteq client[c].servers}
       IN  Set(r, IF Names \cap req[r].scope = {} \/ (using # {} /\ req[r].op = "delete") THEN Idle
                  ELSE [req[r] EXCEPT !.at = IF using = {} THEN "drop" ELSE "unlist", !.people = client, !.todo = using])
    /\ ReadsOnly /\ UNCHANGED edits

\* Deleted since the request has read.
Dropped(r, list) == (list \cap beside[r]) \ Names

GiveServers(r, c, to) ==
    /\ IF client[c] = None THEN UNCHANGED <<client, beside, broken>>
       ELSE /\ client' = [client EXCEPT ![c].servers = to]
            /\ Writes(r, {ServersOf(c)}, IF Overtaken(r, {ServersOf(c)}) # {} \/ Dropped(r, to) # {}
                                         THEN {ServersOf(c)} ELSE {})
    /\ UNCHANGED <<server, gone, meant, meantIps, edits>>

Unlist(r) ==
    /\ At(r, "unlist")
    /\ \E c \in req[r].todo :
         /\ GiveServers(r, c, req[r].people[c].servers \ req[r].scope)
         /\ Rest(r, req[r].todo \ {c}, "drop")

\* A client that was given the server meanwhile keeps it.
Drop(r) ==
    /\ At(r, "drop")
    /\ LET s == CHOOSE x \in Servers : x \in req[r].scope
       IN  /\ server' = [server EXCEPT ![s] = None]
           /\ meant' = [meant EXCEPT ![s] = None]
           /\ Writes(r, {s}, Overtaken(r, {ServersOf(c) : c \in {p \in People : s \in client[p].servers}}))
    /\ Set(r, Idle)
    /\ UNCHANGED <<client, gone, edits, meantIps>>

\* PATCH users/:id/servers: what can be assigned is read first.
Assign(r, c, list) ==
    /\ c \in People
    /\ list \cap Enabled # {}
    /\ Begin(r, [Idle EXCEPT !.at = "assign", !.op = "assign", !.scope = list \cap Enabled, !.todo = {c}])

WriteAssigned(r) ==
    /\ At(r, "assign")
    /\ \E c \in req[r].todo : GiveServers(r, c, req[r].scope)
    /\ Set(r, Idle)

-----------------------------------------------------------------------------
(* Clients *)

\* A limit that lets one more in.
FullByOne == ClientLimit > 0 /\ Cardinality(People) > ClientLimit
Full == ClientLimit > 0 /\ Cardinality(People) >= ClientLimit

\* POST users by a dealer: its clients are counted, then servers are chosen,
\* ...
CreateClient(r) == ~Full /\ Begin(r, [Idle EXCEPT !.at = "choose", !.op = "create", !.people = client])

Choose(r) ==
    /\ At(r, "choose")
    /\ Set(r, IF Enabled = {} THEN Idle ELSE [req[r] EXCEPT !.at = "insert", !.scope = Enabled])
    /\ ReadsOnly /\ UNCHANGED edits

\* ... and the row is inserted.
Unused(c) == client[c] = None /\ c \notin gone

Insert(r) ==
    /\ At(r, "insert")
    /\ \E c \in Clients : Unused(c)
    /\ LET c == CHOOSE x \in Clients : Unused(x)
           others == \E x \in People : req[r].people[x] = None
       IN  /\ client' = [client EXCEPT ![c] = [servers |-> req[r].scope, ips |-> NoIps, active |-> TRUE]]
           /\ meantIps' = [meantIps EXCEPT ![c] = NoIps]
           /\ Writes(r, {ServersOf(c)}, (IF others THEN {c} ELSE {})
                                        \cup (IF Dropped(r, req[r].scope) # {} THEN {ServersOf(c)} ELSE {}))
    /\ Set(r, Idle)
    /\ UNCHANGED <<server, gone, meant, edits>>

\* A client is switched off, by its limits or an administrator, or on again.
Switch(c) ==
    /\ c \in People
    /\ client' = [client EXCEPT ![c].active = ~@]
    /\ UNCHANGED <<server, gone, req, edits, ghosts, beside>>

\* DELETE users/:id
DeleteClient(c) ==
    /\ c \in People
    /\ client' = [client EXCEPT ![c] = None]
    /\ gone' = gone \cup {c}
    /\ UNCHANGED <<server, req, edits, ghosts, beside>>

\* The process ends, and with it the requests.
Restart ==
    /\ \E r \in Requests : ~At(r, "idle")
    /\ req' = [r \in Requests |-> Idle]
    /\ UNCHANGED <<rows, edits, ghosts, beside>>

Arrive(r) ==
    \/ \E value \in Values, scope \in SUBSET Servers \ {{}} :
         EditIps(r, value, scope) \/ EditHosts(r, value, scope) \/ EditPorts(r, value, scope)
    \/ \E value \in Values, scope \in SUBSET Servers : AddDomain(r, value, scope)
    \/ \E c \in Clients, scope \in SUBSET Servers \ {{}}, value \in Values \cup {None} : EditClientIps(r, c, scope, value)
    \/ \E s \in Servers, field \in Fields, value \in Values : EditServer(r, s, field, value)
    \/ \E s \in Servers, value \in BOOLEAN : EditServer(r, s, "enabled", value)
    \/ \E value \in Values : EditAddresses(r, value)
    \/ \E s \in Servers, force \in BOOLEAN : DeleteServer(r, s, force)
    \/ \E c \in Clients, list \in SUBSET Servers : Assign(r, c, list)
    \/ CreateClient(r)

Continue(r) ==
    \/ List(r) \/ Upsert(r) \/ ListClients(r) \/ Override(r) \/ Get(r) \/ Update(r)
    \/ Using(r) \/ Unlist(r) \/ Drop(r) \/ WriteAssigned(r) \/ Choose(r) \/ Insert(r)

Next ==
    \/ \E r \in Requests : Arrive(r) \/ Continue(r)
    \/ \E c \in Clients : Switch(c) \/ DeleteClient(c)
    \/ Restart

Spec == Init /\ [][Next]_vars

-----------------------------------------------------------------------------

\* Edits that do not overlap are not lost: a row of a server, and the
\* addresses of a client, hold the last value of each field; a deleted server
\* stays deleted.  Only a request that others have overtaken undoes an edit.
EditsStay ==
    /\ \A s \in Servers \ broken : server[s] = meant[s]
    /\ \A c \in People : AddressesOf(c) \notin broken => client[c].ips = meantIps[c]

\* A client names no server that is gone, and no more clients than the limit
\* came in, unless requests have overtaken each other.
ClientsAreServed ==
    /\ \A c \in People : ServersOf(c) \notin broken => client[c].servers \subseteq Names
    /\ ClientLimit > 0 => Cardinality(People \ broken) <= ClientLimit
=============================================================================
