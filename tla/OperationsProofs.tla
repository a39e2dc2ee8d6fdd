-------------------------- MODULE OperationsProofs --------------------------
(***************************************************************************)
(* Proofs about four of the parts that share no state: the rows of servers *)
(* and clients, the quarantine of leftover files, the chat bot and the     *)
(* settings of the panel.  Each has an inductive invariant of its own,     *)
(* from which the properties that the runs check follow.                   *)
(***************************************************************************)
EXTENDS MCOperations, FiniteSetTheorems, TLAPS

-----------------------------------------------------------------------------
(* The rows of servers and clients: types *)

\* What a request at each stage has read.
Consistent(g) ==
    /\ g.field \in Fields => g.value \in Values
    /\ g.field = "enabled" => g.value \in BOOLEAN
WellFormed(g) ==
    /\ g.at \in {"list", "upsert", "get", "update"} => Consistent(g)
    /\ g.at \in {"upsert", "get", "update"} => g.todo \subseteq Servers
    /\ g.at \in {"override", "unlist", "assign"} => g.todo \subseteq Clients
    /\ g.at = "upsert" => \A s \in g.todo : g.all[s] # None
    /\ g.at = "update" => g.who \in Servers /\ g.all[g.who] # None
    /\ g.at = "clients" => g.value \in Values
    /\ g.at = "override" => g.value \in Values \cup {None}
    /\ g.at \in {"override", "unlist"} => \A c \in g.todo : g.people[c] # None
    /\ g.at \in {"using", "unlist", "drop"} => \E s \in Servers : g.scope = {s}
Registers == \A r \in Requests : WellFormed(req[r])

Typed == TypeOK /\ Registers

\* The register of one request changes.
LEMMA SetEffect ==
    ASSUME Typed, NEW r \in Requests, NEW g, Set(r, g)
    PROVE  \A q \in Requests : req'[q] = IF q = r THEN g ELSE req[q]
BY DEF Set, Typed, TypeOK

LEMMA SetTyped ==
    ASSUME Typed, NEW r \in Requests, NEW g \in Register, WellFormed(g), Set(r, g)
    PROVE  req' \in [Requests -> Register] /\ Registers'
<1>1. \A q \in Requests : req'[q] = IF q = r THEN g ELSE req[q]
  BY SetEffect
<1>2. req' \in [Requests -> Register]
  BY DEF Set, Typed, TypeOK
<1>3. \A q \in Requests : WellFormed(req'[q])
  BY <1>1 DEF Typed, Registers
<1> QED BY <1>2, <1>3 DEF Registers, WellFormed, Consistent

LEMMA IdleTyped == Idle \in Register /\ WellFormed(Idle)
BY DEF Idle, Register, Stages, Ops, Fields, WellFormed

LEMMA RestTyped ==
    ASSUME Typed, NEW r \in Requests, NEW todo, todo \subseteq req[r].todo, NEW phase \in Stages,
           Rest(r, todo, phase),
           phase # "idle" => WellFormed([req[r] EXCEPT !.at = phase, !.todo = {}])
    PROVE  req' \in [Requests -> Register] /\ Registers'
<1>1. req[r] \in Register /\ WellFormed(req[r])
  BY DEF Typed, TypeOK, Registers
<1>2. [req[r] EXCEPT !.todo = todo] \in Register /\ WellFormed([req[r] EXCEPT !.todo = todo])
  BY <1>1 DEF Register, WellFormed, Consistent
<1>3. [req[r] EXCEPT !.at = phase, !.todo = {}] \in Register
  BY <1>1 DEF Register
<1> QED BY <1>2, <1>3, IdleTyped, SetTyped DEF Rest

\* An edited row is a row.
LEMMA EditedTyped ==
    ASSUME NEW record \in Row, NEW field \in Fields \cup {"enabled"}, NEW value,
           field \in Fields => value \in Values, field = "enabled" => value \in BOOLEAN
    PROVE  Edited(record, field, value) \in Row
<1>1. CASE field = "ip"
  BY <1>1 DEF Edited, Row, Fields, Address
<1>2. CASE field = "host"
  BY <1>2 DEF Edited, Row, Fields, Address
<1>3. CASE field = "port"
  BY <1>3 DEF Edited, Row, Fields, Address
<1>4. CASE field = "enabled"
  BY <1>4 DEF Edited, Row
<1> QED BY <1>1, <1>2, <1>3, <1>4 DEF Fields

LEMMA WritesTyped ==
    ASSUME Typed, NEW r \in Requests, NEW things, NEW spoilt, things \subseteq Things,
           spoilt \subseteq Things, Writes(r, things, spoilt)
    PROVE  beside' \in [Requests -> SUBSET Things] /\ broken' \subseteq Things
BY DEF Writes, Typed, TypeOK

LEMMA BeginTyped ==
    ASSUME Typed, NEW r \in Requests, NEW g \in Register, WellFormed(g), Begin(r, g)
    PROVE  Typed'
<1>1. req' \in [Requests -> Register] /\ Registers'
  BY SetTyped DEF Begin
<1>2. edits' \in 0 .. MaxEdits /\ beside' \in [Requests -> SUBSET Things]
  BY LimitsAssumption DEF Begin, Typed, TypeOK
<1> QED BY <1>1, <1>2 DEF Begin, Typed, TypeOK, rows, ghosts

\* What arrives is well-formed.
LEMMA ArriveTyped ==
    ASSUME Typed, NEW r \in Requests, Arrive(r)
    PROVE  Typed'
<1> USE DEF Stages, Ops, Fields, WellFormed, Consistent
<1>1. ASSUME NEW field \in Fields, NEW value \in Values, NEW scope \in SUBSET Servers,
             EditCdn(r, field, value, scope)
      PROVE  Typed'
  <2>1. [Idle EXCEPT !.at = "list", !.op = "cdn", !.field = field, !.value = value,
                     !.scope = scope] \in Register
    BY DEF Idle, Register
  <2>2. WellFormed([Idle EXCEPT !.at = "list", !.op = "cdn", !.field = field, !.value = value,
                                !.scope = scope])
    BY DEF Idle
  <2> QED BY <1>1, <2>1, <2>2, BeginTyped DEF EditCdn
<1>2. ASSUME NEW c \in Clients, NEW scope \in SUBSET Servers, NEW value \in Values \cup {None},
             EditClientIps(r, c, scope, value)
      PROVE  Typed'
  <2>1. [Idle EXCEPT !.at = "override", !.op = "override", !.value = value, !.scope = scope,
                     !.people = client, !.todo = {c}] \in Register
    BY DEF Idle, Register, Typed, TypeOK
  <2>2. WellFormed([Idle EXCEPT !.at = "override", !.op = "override", !.value = value,
                                !.scope = scope, !.people = client, !.todo = {c}])
    BY <1>2 DEF Idle, EditClientIps, People
  <2> QED BY <1>2, <2>1, <2>2, BeginTyped DEF EditClientIps
<1>3. ASSUME NEW s \in Servers, NEW field \in Fields \cup {"enabled"}, NEW value \in Values \cup BOOLEAN,
             field \in Fields => value \in Values, field = "enabled" => value \in BOOLEAN,
             EditServer(r, s, field, value)
      PROVE  Typed'
  <2>1. [Idle EXCEPT !.at = "get", !.field = field, !.value = value, !.todo = {s}] \in Register
    BY DEF Idle, Register
  <2>2. WellFormed([Idle EXCEPT !.at = "get", !.field = field, !.value = value, !.todo = {s}])
    BY <1>3 DEF Idle
  <2> QED BY <1>3, <2>1, <2>2, BeginTyped DEF EditServer
<1>5. ASSUME NEW value \in Values, EditAddresses(r, value)
      PROVE  Typed'
  <2>1. [Idle EXCEPT !.at = "list", !.op = "addresses", !.value = value] \in Register
    BY DEF Idle, Register
  <2>2. WellFormed([Idle EXCEPT !.at = "list", !.op = "addresses", !.value = value])
    BY DEF Idle
  <2> QED BY <1>5, <2>1, <2>2, BeginTyped DEF EditAddresses
<1>7. ASSUME NEW s \in Servers, NEW force \in BOOLEAN, DeleteServer(r, s, force)
      PROVE  Typed'
  <2>1. PICK op \in Ops : op = IF force THEN "force" ELSE "delete"
    OBVIOUS
  <2>2. [Idle EXCEPT !.at = "using", !.op = op, !.scope = {s}] \in Register
    BY DEF Idle, Register
  <2>3. WellFormed([Idle EXCEPT !.at = "using", !.op = op, !.scope = {s}])
    BY DEF Idle
  <2>4. Begin(r, [Idle EXCEPT !.at = "using", !.op = op, !.scope = {s}])
    BY <1>7, <2>1 DEF DeleteServer
  <2> QED BY <2>2, <2>3, <2>4, BeginTyped
<1>8. ASSUME NEW c \in Clients, NEW list \in SUBSET Servers, Assign(r, c, list)
      PROVE  Typed'
  <2>1. [Idle EXCEPT !.at = "assign", !.op = "assign", !.scope = list \cap Enabled,
                     !.todo = {c}] \in Register
    BY DEF Idle, Register
  <2>2. WellFormed([Idle EXCEPT !.at = "assign", !.op = "assign", !.scope = list \cap Enabled,
                                !.todo = {c}])
    BY DEF Idle
  <2> QED BY <1>8, <2>1, <2>2, BeginTyped DEF Assign
<1>9. CASE CreateClient(r)
  <2>1. [Idle EXCEPT !.at = "choose", !.op = "create", !.people = client] \in Register
    BY DEF Idle, Register, Typed, TypeOK
  <2>2. WellFormed([Idle EXCEPT !.at = "choose", !.op = "create", !.people = client])
    BY DEF Idle
  <2> QED BY <1>9, <2>1, <2>2, BeginTyped DEF CreateClient
<1>10. CASE \E value \in Values, scope \in SUBSET Servers :
              \/ EditIps(r, value, scope) \/ EditHosts(r, value, scope)
              \/ EditPorts(r, value, scope) \/ AddDomain(r, value, scope)
  BY <1>1, <1>10 DEF EditIps, EditHosts, EditPorts, AddDomain
<1>12. CASE \E s \in Servers :
              \/ \E field \in Fields, value \in Values : EditServer(r, s, field, value)
              \/ \E value \in BOOLEAN : EditServer(r, s, "enabled", value)
  BY <1>3, <1>12
<1> QED BY <1>2, <1>5, <1>7, <1>8, <1>9, <1>10, <1>12 DEF Arrive

\* What the steps of a request read, and write, is rows.
LEMMA ReadTyped ==
    ASSUME Typed, NEW r \in Requests, List(r) \/ ListClients(r) \/ Get(r) \/ Using(r) \/ Choose(r)
    PROVE  Typed'
<1>1. req[r] \in Register /\ WellFormed(req[r])
  BY DEF Typed, TypeOK, Registers
<1>2. req' \in [Requests -> Register] /\ Registers' => Typed'
  <2>1. UNCHANGED <<rows, ghosts, edits>>
    BY DEF List, ListClients, Get, Using, Choose, ReadsOnly
  <2>2. beside' \in [Requests -> SUBSET Things]
    BY DEF List, ListClients, Get, Using, Choose, ReadsOnly, Typed, TypeOK
  <2> QED BY <2>1, <2>2 DEF Typed, TypeOK, rows, ghosts
<1>3. CASE List(r)
  <2>1. ASSUME NEW targets, targets \subseteq Names, NEW phase, phase \in {"upsert", "get"},
               Set(r, [req[r] EXCEPT !.at = phase, !.all = server, !.scope = targets, !.todo = targets])
        PROVE  Typed'
    <3>1. [req[r] EXCEPT !.at = phase, !.all = server, !.scope = targets, !.todo = targets] \in Register
      BY <1>1, <2>1 DEF Register, Stages, Names, Typed, TypeOK
    <3>2. WellFormed([req[r] EXCEPT !.at = phase, !.all = server, !.scope = targets, !.todo = targets])
      BY <1>1, <1>3, <2>1 DEF List, At, Register, WellFormed, Consistent, Names
    <3> QED BY <1>2, <2>1, <3>1, <3>2, SetTyped
  <2>2. CASE Set(r, Idle)
    BY <1>2, <2>2, IdleTyped, SetTyped
  <2> QED BY <1>3, <2>1, <2>2 DEF List, Enabled
<1>4. CASE ListClients(r)
  <2>1. ASSUME NEW changed, changed \subseteq People,
               Set(r, [req[r] EXCEPT !.at = "override", !.people = client, !.todo = changed])
        PROVE  Typed'
    <3>1. [req[r] EXCEPT !.at = "override", !.people = client, !.todo = changed] \in Register
      BY <1>1, <2>1 DEF Register, Stages, People, Typed, TypeOK
    <3>2. WellFormed([req[r] EXCEPT !.at = "override", !.people = client, !.todo = changed])
      BY <1>1, <1>4, <2>1 DEF ListClients, At, Register, WellFormed, Consistent, People
    <3> QED BY <1>2, <2>1, <3>1, <3>2, SetTyped
  <2>2. CASE Set(r, Idle)
    BY <1>2, <2>2, IdleTyped, SetTyped
  <2> QED BY <1>4, <2>1, <2>2 DEF ListClients
<1>6. CASE Get(r)
  <2>1. PICK s \in req[r].todo :
          IF server[s] = None THEN Rest(r, req[r].todo \ {s}, "idle")
          ELSE Set(r, [req[r] EXCEPT !.at = "update", !.who = s, !.all[s] = server[s]])
    BY <1>6 DEF Get
  <2>2. s \in Servers
    BY <1>1, <1>6 DEF Get, At, WellFormed
  <2>3. CASE server[s] = None
    BY <1>2, <2>1, <2>3, RestTyped DEF Stages
  <2>4. CASE server[s] # None
    <3>1. [req[r] EXCEPT !.at = "update", !.who = s, !.all[s] = server[s]] \in Register
      BY <1>1, <2>2 DEF Register, Stages, Typed, TypeOK
    <3>2. WellFormed([req[r] EXCEPT !.at = "update", !.who = s, !.all[s] = server[s]])
      BY <1>1, <1>6, <2>2, <2>4 DEF Get, At, Register, WellFormed, Consistent
    <3> QED BY <1>2, <2>1, <2>4, <3>1, <3>2, SetTyped
  <2> QED BY <2>3, <2>4
<1>7. CASE Using(r)
  <2>1. ASSUME NEW using, using \subseteq People, NEW phase, phase \in {"drop", "unlist"},
               Set(r, [req[r] EXCEPT !.at = phase, !.people = client, !.todo = using])
        PROVE  Typed'
    <3>1. [req[r] EXCEPT !.at = phase, !.people = client, !.todo = using] \in Register
      BY <1>1, <2>1 DEF Register, Stages, People, Typed, TypeOK
    <3>2. WellFormed([req[r] EXCEPT !.at = phase, !.people = client, !.todo = using])
      BY <1>1, <1>7, <2>1 DEF Using, At, Register, WellFormed, Consistent, People
    <3> QED BY <1>2, <2>1, <3>1, <3>2, SetTyped
  <2>2. CASE Set(r, Idle)
    BY <1>2, <2>2, IdleTyped, SetTyped
  <2> QED BY <1>7, <2>1, <2>2 DEF Using
<1>8. CASE Choose(r)
  <2>1. CASE Set(r, [req[r] EXCEPT !.at = "insert", !.scope = Enabled])
    <3>1. [req[r] EXCEPT !.at = "insert", !.scope = Enabled] \in Register
      BY <1>1 DEF Register, Stages, Enabled, Names
    <3>2. WellFormed([req[r] EXCEPT !.at = "insert", !.scope = Enabled])
      BY <1>1 DEF Register, WellFormed
    <3> QED BY <1>2, <2>1, <3>1, <3>2, SetTyped
  <2>2. CASE Set(r, Idle)
    BY <1>2, <2>2, IdleTyped, SetTyped
  <2> QED BY <1>8, <2>1, <2>2 DEF Choose
<1> QED BY <1>3, <1>4, <1>6, <1>7, <1>8

LEMMA OvertakenThings ==
    ASSUME Typed, NEW r \in Requests, NEW things
    PROVE  Overtaken(r, things) \subseteq Things
BY DEF Overtaken, Typed, TypeOK

LEMMA ThingsAre ==
    /\ \A s \in Servers : {s} \subseteq Things
    /\ \A c \in Clients : {c} \subseteq Things /\ {ServersOf(c)} \subseteq Things
                                             /\ {AddressesOf(c)} \subseteq Things
BY DEF Things, ServersOf, AddressesOf

LEMMA UpsertTyped ==
    ASSUME Typed, NEW r \in Requests, Upsert(r)
    PROVE  Typed'
<1>1. req[r] \in Register /\ WellFormed(req[r]) /\ req[r].at = "upsert"
  BY DEF Typed, TypeOK, Registers, Upsert, At
<1>2. PICK s \in req[r].todo :
         /\ server' = [server EXCEPT ![s] = Edited(req[r].all[s], req[r].field, req[r].value)]
         /\ meant' = [meant EXCEPT ![s] = IF @ = None THEN None ELSE [@ EXCEPT ![req[r].field] = req[r].value]]
         /\ Writes(r, {s}, Overtaken(r, {s}))
         /\ Rest(r, req[r].todo \ {s}, IF req[r].field = "ip" THEN "clients" ELSE "idle")
  BY DEF Upsert
<1>3. s \in Servers /\ req[r].all[s] \in Row
  BY <1>1 DEF Register, WellFormed
<1>4. Edited(req[r].all[s], req[r].field, req[r].value) \in Row
  BY <1>1, <1>3, EditedTyped DEF Register, WellFormed, Consistent
<1>5. server' \in [Servers -> Row \cup {None}]
  BY <1>2, <1>4 DEF Typed, TypeOK
<1>6. meant' \in [Servers -> Row \cup {None}]
  <2>1. meant[s] # None => Edited(meant[s], req[r].field, req[r].value) \in Row
    BY <1>1, <1>3, EditedTyped DEF Register, WellFormed, Consistent, Typed, TypeOK
  <2> QED BY <1>2, <2>1 DEF Edited, Typed, TypeOK
<1>7. beside' \in [Requests -> SUBSET Things] /\ broken' \subseteq Things
  BY <1>2, <1>3, OvertakenThings, ThingsAre, WritesTyped
<1>8. WellFormed([req[r] EXCEPT !.at = "clients", !.todo = {}]) \/ req[r].field # "ip"
  BY <1>1 DEF Register, WellFormed, Consistent, Fields
<1>9. req' \in [Requests -> Register] /\ Registers'
  BY <1>2, <1>8, RestTyped DEF Stages
<1> QED BY <1>5, <1>6, <1>7, <1>9 DEF Upsert, Typed, TypeOK

LEMMA UpdateTyped ==
    ASSUME Typed, NEW r \in Requests, Update(r)
    PROVE  Typed'
<1>1. req[r] \in Register /\ WellFormed(req[r]) /\ req[r].at = "update"
  BY DEF Typed, TypeOK, Registers, Update, At
<1>2. PICK s \in Servers : s = req[r].who /\ req[r].all[s] \in Row
  BY <1>1 DEF Register, WellFormed
<1>3. /\ server' \in [Servers -> Row \cup {None}] /\ meant' \in [Servers -> Row \cup {None}]
      /\ beside' \in [Requests -> SUBSET Things] /\ broken' \subseteq Things
  <2>1. CASE server[s] = None
    BY <1>2, <2>1 DEF Update, Typed, TypeOK
  <2>2. CASE server[s] # None
    <3>1. /\ server' = [server EXCEPT ![s] = Edited(req[r].all[s], req[r].field, req[r].value)]
          /\ meant' = [meant EXCEPT ![s] = IF @ = None THEN None
                                           ELSE [@ EXCEPT ![req[r].field] = req[r].value]]
          /\ Writes(r, {s}, Overtaken(r, {s}))
      BY <1>2, <2>2 DEF Update
    <3>2. Edited(req[r].all[s], req[r].field, req[r].value) \in Row
      BY <1>1, <1>2, EditedTyped DEF Register, WellFormed, Consistent
    <3>3. meant[s] # None => Edited(meant[s], req[r].field, req[r].value) \in Row
      BY <1>1, EditedTyped DEF Register, WellFormed, Consistent, Typed, TypeOK
    <3>4. server' \in [Servers -> Row \cup {None}] /\ meant' \in [Servers -> Row \cup {None}]
      BY <3>1, <3>2, <3>3 DEF Edited, Typed, TypeOK
    <3> QED BY <3>1, <3>4, OvertakenThings, ThingsAre, WritesTyped
  <2> QED BY <2>1, <2>2
<1>4. req' \in [Requests -> Register] /\ Registers'
  <2>1. CASE Set(r, Idle)
    BY <2>1, IdleTyped, SetTyped
  <2>2. CASE Set(r, [req[r] EXCEPT !.at = "get", !.who = None, !.todo = @ \ {req[r].who}])
    <3>1. [req[r] EXCEPT !.at = "get", !.who = None, !.todo = @ \ {req[r].who}] \in Register
      BY <1>1 DEF Register, Stages
    <3>2. WellFormed([req[r] EXCEPT !.at = "get", !.who = None, !.todo = @ \ {req[r].who}])
      BY <1>1 DEF Register, WellFormed, Consistent
    <3> QED BY <2>2, <3>1, <3>2, SetTyped
  <2> QED BY <2>1, <2>2 DEF Update
<1> QED BY <1>3, <1>4 DEF Update, Typed, TypeOK
LEMMA OverriddenTyped ==
    ASSUME NEW addresses \in Addresses, NEW scope, NEW value \in Values \cup {None}
    PROVE  Overridden(addresses, scope, value) \in Addresses
BY DEF Overridden, Addresses

LEMMA OverrideTyped ==
    ASSUME Typed, NEW r \in Requests, Override(r)
    PROVE  Typed'
<1>1. req[r] \in Register /\ WellFormed(req[r]) /\ req[r].at = "override"
  BY DEF Typed, TypeOK, Registers, Override, At
<1>2. PICK c \in req[r].todo :
         /\ IF client[c] = None THEN UNCHANGED <<client, meantIps, beside, broken>>
            ELSE /\ client' = [client EXCEPT ![c].ips =
                                  Overridden(req[r].people[c].ips, req[r].scope, req[r].value)]
                 /\ meantIps' = [meantIps EXCEPT ![c] = Overridden(@, req[r].scope, req[r].value)]
                 /\ Writes(r, {AddressesOf(c)}, Overtaken(r, {AddressesOf(c)}))
         /\ Rest(r, req[r].todo \ {c}, "idle")
  BY DEF Override
<1>3. c \in Clients /\ req[r].people[c] \in Person
  BY <1>1 DEF Register, WellFormed
<1>4. /\ client' \in [Clients -> Person \cup {None}] /\ meantIps' \in [Clients -> Addresses]
      /\ beside' \in [Requests -> SUBSET Things] /\ broken' \subseteq Things
  <2>1. CASE client[c] = None
    BY <1>2, <2>1 DEF Typed, TypeOK
  <2>2. CASE client[c] # None
    <3>1. client[c] \in Person /\ meantIps[c] \in Addresses
      BY <1>3, <2>2 DEF Typed, TypeOK
    <3>2. PICK addresses : addresses = Overridden(req[r].people[c].ips, req[r].scope, req[r].value)
      OBVIOUS
    <3>3. addresses \in Addresses /\ Overridden(meantIps[c], req[r].scope, req[r].value) \in Addresses
      BY <1>1, <1>3, <3>1, <3>2, OverriddenTyped DEF Person, WellFormed
    <3>4. [client[c] EXCEPT !.ips = addresses] \in Person
      BY <3>1, <3>3 DEF Person
    <3>5. client' = [client EXCEPT ![c] = [client[c] EXCEPT !.ips = addresses]]
      BY <1>2, <1>3, <2>2, <3>2 DEF Typed, TypeOK
    <3>6. client' \in [Clients -> Person \cup {None}]
      BY <3>4, <3>5 DEF Typed, TypeOK
    <3>7. meantIps' \in [Clients -> Addresses]
      BY <1>2, <2>2, <3>3 DEF Typed, TypeOK
    <3> QED BY <1>2, <1>3, <2>2, <3>6, <3>7, OvertakenThings, ThingsAre, WritesTyped
  <2> QED BY <2>1, <2>2
<1>5. req' \in [Requests -> Register] /\ Registers'
  BY <1>2, RestTyped DEF Stages
<1> QED BY <1>4, <1>5 DEF Override, Typed, TypeOK

LEMMA GiveServersTyped ==
    ASSUME Typed, NEW r \in Requests, NEW c \in Clients, NEW to \in SUBSET Servers,
           GiveServers(r, c, to)
    PROVE  /\ client' \in [Clients -> Person \cup {None}]
           /\ beside' \in [Requests -> SUBSET Things] /\ broken' \subseteq Things
           /\ UNCHANGED <<server, gone, meant, meantIps, edits>>
<1>1. CASE client[c] = None
  BY <1>1 DEF GiveServers, Typed, TypeOK
<1>2. CASE client[c] # None
  <2>1. [client[c] EXCEPT !.servers = to] \in Person
    BY <1>2 DEF Person, Typed, TypeOK
  <2>2. client' = [client EXCEPT ![c] = [client[c] EXCEPT !.servers = to]]
    BY <1>2 DEF GiveServers, Typed, TypeOK
  <2>3. client' \in [Clients -> Person \cup {None}]
    BY <2>1, <2>2 DEF Typed, TypeOK
  <2>4. PICK spoilt : spoilt \subseteq Things /\ Writes(r, {ServersOf(c)}, spoilt)
    BY <1>2, ThingsAre DEF GiveServers
  <2>5. beside' \in [Requests -> SUBSET Things] /\ broken' \subseteq Things
    BY <2>4, ThingsAre, WritesTyped
  <2> QED BY <2>3, <2>5 DEF GiveServers
<1> QED BY <1>1, <1>2

LEMMA ListsTyped ==
    ASSUME Typed, NEW r \in Requests, Unlist(r) \/ WriteAssigned(r)
    PROVE  Typed'
<1>1. req[r] \in Register /\ WellFormed(req[r])
  BY DEF Typed, TypeOK, Registers
<1>2. CASE Unlist(r)
  <2>1. PICK c \in req[r].todo : /\ GiveServers(r, c, req[r].people[c].servers \ req[r].scope)
                                 /\ Rest(r, req[r].todo \ {c}, "drop")
    BY <1>2 DEF Unlist
  <2>2. c \in Clients /\ req[r].people[c].servers \ req[r].scope \in SUBSET Servers
    BY <1>1, <1>2 DEF Unlist, At, Register, WellFormed, Person
  <2>3. WellFormed([req[r] EXCEPT !.at = "drop", !.todo = {}])
    BY <1>1, <1>2 DEF Unlist, At, Register, WellFormed
  <2>4. req' \in [Requests -> Register] /\ Registers'
    BY <2>1, <2>3, RestTyped DEF Stages
  <2> QED BY <2>1, <2>2, <2>4, GiveServersTyped DEF Typed, TypeOK
<1>3. CASE WriteAssigned(r)
  <2>1. PICK c \in req[r].todo : GiveServers(r, c, req[r].scope)
    BY <1>3 DEF WriteAssigned
  <2>2. c \in Clients /\ req[r].scope \in SUBSET Servers
    BY <1>1, <1>3 DEF WriteAssigned, At, Register, WellFormed
  <2>3. req' \in [Requests -> Register] /\ Registers'
    BY <1>3, IdleTyped, SetTyped DEF WriteAssigned
  <2> QED BY <2>1, <2>2, <2>3, GiveServersTyped DEF Typed, TypeOK
<1> QED BY <1>2, <1>3

LEMMA DropTyped ==
    ASSUME Typed, NEW r \in Requests, Drop(r)
    PROVE  /\ Typed'
           /\ \E s \in Servers : /\ req[r].scope = {s} /\ server' = [server EXCEPT ![s] = None]
                                 /\ meant' = [meant EXCEPT ![s] = None]
                                 /\ Writes(r, {s}, Overtaken(r, {ServersOf(c) :
                                      c \in {p \in People : s \in client[p].servers}}))
<1>1. PICK s \in Servers : req[r].scope = {s}
  BY DEF Drop, At, Typed, Registers, WellFormed
<1>2. (CHOOSE x \in Servers : x \in req[r].scope) = s
  BY <1>1
<1>3. /\ server' = [server EXCEPT ![s] = None]
      /\ meant' = [meant EXCEPT ![s] = None]
      /\ Writes(r, {s}, Overtaken(r, {ServersOf(c) : c \in {p \in People : s \in client[p].servers}}))
  BY <1>2 DEF Drop
<1>4. beside' \in [Requests -> SUBSET Things] /\ broken' \subseteq Things
  BY <1>3, OvertakenThings, ThingsAre, WritesTyped
<1>5. req' \in [Requests -> Register] /\ Registers'
  BY IdleTyped, SetTyped DEF Drop
<1>6. server' \in [Servers -> Row \cup {None}] /\ meant' \in [Servers -> Row \cup {None}]
  BY <1>3 DEF Typed, TypeOK
<1> QED BY <1>1, <1>3, <1>4, <1>5, <1>6 DEF Drop, Typed, TypeOK

\* What an insertion does, with the chosen client spelled out.
LEMMA InsertEffect ==
    ASSUME Typed, NEW r \in Requests, Insert(r)
    PROVE  \E c \in Clients :
             /\ Unused(c)
             /\ client' = [client EXCEPT ![c] = [servers |-> req[r].scope, ips |-> NoIps, active |-> TRUE]]
             /\ meantIps' = [meantIps EXCEPT ![c] = NoIps]
             /\ Writes(r, {ServersOf(c)},
                       (IF \E x \in People : req[r].people[x] = None THEN {c} ELSE {})
                       \cup (IF Dropped(r, req[r].scope) # {} THEN {ServersOf(c)} ELSE {}))
<1>1. PICK c \in Clients : Unused(c) /\ c = CHOOSE x \in Clients : Unused(x)
  BY DEF Insert
<1> QED BY <1>1 DEF Insert

LEMMA InsertTyped ==
    ASSUME Typed, NEW r \in Requests, Insert(r)
    PROVE  Typed'
<1>1. PICK c \in Clients :
        /\ client' = [client EXCEPT ![c] = [servers |-> req[r].scope, ips |-> NoIps, active |-> TRUE]]
        /\ meantIps' = [meantIps EXCEPT ![c] = NoIps]
        /\ \E spoilt : spoilt \subseteq Things /\ Writes(r, {ServersOf(c)}, spoilt)
  BY InsertEffect, ThingsAre
<1>2. NoIps \in Addresses /\ req[r].scope \subseteq Servers
  BY DEF NoIps, Addresses, Typed, TypeOK, Register
<1>3. [servers |-> req[r].scope, ips |-> NoIps, active |-> TRUE] \in Person
  BY <1>2 DEF Person
<1>4. client' \in [Clients -> Person \cup {None}] /\ meantIps' \in [Clients -> Addresses]
  BY <1>1, <1>2, <1>3 DEF Typed, TypeOK
<1>5. beside' \in [Requests -> SUBSET Things] /\ broken' \subseteq Things
  BY <1>1, ThingsAre, WritesTyped
<1>6. req' \in [Requests -> Register] /\ Registers'
  BY IdleTyped, SetTyped DEF Insert
<1> QED BY <1>4, <1>5, <1>6 DEF Insert, Typed, TypeOK

LEMMA PanelTyped ==
    ASSUME Typed, (\E c \in Clients : Switch(c) \/ DeleteClient(c)) \/ Restart
    PROVE  Typed'
<1>1. ASSUME NEW c \in Clients, Switch(c)
      PROVE  Typed'
  <2>1. [client[c] EXCEPT !.active = ~@] \in Person /\ client' = [client EXCEPT ![c] = [client[c] EXCEPT !.active = ~@]]
    BY <1>1 DEF Switch, People, Person, Typed, TypeOK
  <2> QED BY <1>1, <2>1 DEF Switch, ghosts, Typed, TypeOK, Registers
<1>2. ASSUME NEW c \in Clients, DeleteClient(c)
      PROVE  Typed'
  BY <1>2 DEF DeleteClient, ghosts, Typed, TypeOK, Registers
<1>3. CASE Restart
  <2>1. req' \in [Requests -> Register] /\ \A r \in Requests : WellFormed(req'[r])
    BY <1>3, IdleTyped DEF Restart
  <2> QED BY <1>3, <2>1 DEF Restart, rows, ghosts, Typed, TypeOK, Registers, WellFormed, Consistent
<1> QED BY <1>1, <1>2, <1>3

LEMMA InitTyped == Init => Typed
<1> SUFFICES ASSUME Init PROVE Typed
  OBVIOUS
<1>1. New \in Row
  BY DEF New, Row, Address
<1>2. NoIps \in Addresses
  BY DEF NoIps, Addresses
<1>3. [servers |-> Servers, ips |-> NoIps, active |-> TRUE] \in Person
  BY <1>2 DEF Person
<1>4. req \in [Requests -> Register] /\ Registers
  BY IdleTyped DEF Init, Registers
<1>5. client \in [Clients -> Person \cup {None}]
  BY <1>3 DEF Init
<1> QED BY <1>1, <1>2, <1>4, <1>5, LimitsAssumption DEF Init, Typed, TypeOK

LEMMA NextTyped == Typed /\ [Next]_vars => Typed'
<1> SUFFICES ASSUME Typed, [Next]_vars PROVE Typed'
  OBVIOUS
<1>1. ASSUME NEW r \in Requests, Continue(r)
      PROVE  Typed'
  BY <1>1, ReadTyped, UpsertTyped, UpdateTyped, OverrideTyped, ListsTyped, DropTyped,
     InsertTyped DEF Continue
<1>2. CASE UNCHANGED vars
  BY <1>2 DEF vars, rows, ghosts, Typed, TypeOK, Registers
<1> QED BY <1>1, <1>2, ArriveTyped, PanelTyped DEF Next

\* Every row, register and note keeps its type.
THEOREM RowsTypeCorrect == Spec => []TypeOK
<1>1. Typed => TypeOK
  BY DEF Typed
<1> QED BY <1>1, InitTyped, NextTyped, PTL DEF Spec

-----------------------------------------------------------------------------
(* What a request has read is what is there, unless others have written it *)
(* since, which `beside' shows                                             *)

RowsRead(r) ==
    /\ At(r, "upsert") => \A s \in req[r].todo : s \in beside[r] \/ req[r].all[s] = server[s]
    /\ At(r, "update") => req[r].who \in beside[r] \/ req[r].all[req[r].who] = server[req[r].who]
AddressesRead(r) ==
    At(r, "override") => \A c \in req[r].todo \cap People :
        AddressesOf(c) \in beside[r] \/ req[r].people[c].ips = client[c].ips
ListsRead(r) ==
    At(r, "unlist") => \A c \in req[r].todo \cap People :
        ServersOf(c) \in beside[r] \/ req[r].people[c].servers = client[c].servers

\* Who was there is there, or deleted for good.
ClientsRead(r) == \A c \in Clients : req[r].people[c] # None => c \in People \cup gone

\* Nobody is left with a server that is about to be deleted, but those others
\* have given it to.
NobodyUses(r) ==
    req[r].at \in {"unlist", "drop"} =>
        \A c \in People : req[r].scope \subseteq client[c].servers =>
            ServersOf(c) \in beside[r] \/ (At(r, "unlist") /\ c \in req[r].todo)

\* Servers about to be given are there, but those others have deleted.
ChosenExist(r) == req[r].at \in {"assign", "insert"} => req[r].scope \subseteq Names \cup beside[r]

\* There was room when the clients were counted.
Counted(r) ==
    (req[r].at \in {"choose", "insert"} /\ ClientLimit > 0) =>
        Cardinality({c \in Clients : req[r].people[c] # None}) < ClientLimit

Fresh(r) == /\ RowsRead(r) /\ AddressesRead(r) /\ ListsRead(r) /\ ClientsRead(r)
            /\ NobodyUses(r) /\ ChosenExist(r) /\ Counted(r)

\* What a step of another request changes is in `beside' when q is at work.
Noticed(q) ==
    /\ \A c \in Clients : c \in People \cup gone => (client'[c] # None \/ c \in gone')
    /\ \/ At(q, "idle")
       \/ /\ beside[q] \subseteq beside'[q]
          /\ \A s \in Servers : server'[s] = server[s] \/ s \in beside'[q]
          /\ \A c \in Clients :
               \/ client'[c] \in {client[c], None}
               \/ client[c] = None /\ c \notin gone /\ ServersOf(c) \in beside'[q]
               \/ /\ client[c] # None
                  /\ client'[c].ips = client[c].ips \/ AddressesOf(c) \in beside'[q]
                  /\ client'[c].servers = client[c].servers \/ ServersOf(c) \in beside'[q]

LEMMA NoticedFresh ==
    ASSUME Typed, NEW q \in Requests, Fresh(q), req'[q] = req[q], Noticed(q)
    PROVE  Fresh(q)'
<1>1. ClientsRead(q)' /\ Counted(q)'
  BY DEF Fresh, ClientsRead, Counted, Noticed, People
<1>2. CASE At(q, "idle")
  BY <1>1, <1>2 DEF Fresh, At, RowsRead, AddressesRead, ListsRead, NobodyUses, ChosenExist
<1>3. CASE ~At(q, "idle")
  <2>1. /\ beside[q] \subseteq beside'[q]
        /\ \A s \in Servers : server'[s] = server[s] \/ s \in beside'[q]
    BY <1>3 DEF Noticed
  <2>2. \A c \in Clients :
               \/ client'[c] \in {client[c], None}
               \/ client[c] = None /\ c \notin gone /\ ServersOf(c) \in beside'[q]
               \/ /\ client[c] # None
                  /\ client'[c].ips = client[c].ips \/ AddressesOf(c) \in beside'[q]
                  /\ client'[c].servers = client[c].servers \/ ServersOf(c) \in beside'[q]
    BY <1>3 DEF Noticed
  <2>3. WellFormed(req[q])
    BY DEF Typed, Registers
  <2>4. RowsRead(q)'
    BY <2>1, <2>3 DEF Fresh, RowsRead, At, WellFormed
  <2>5. ASSUME NEW c \in Clients, client'[c] # None, req[q].people[c] # None
        PROVE  /\ client[c] # None
               /\ client'[c].ips = client[c].ips \/ AddressesOf(c) \in beside'[q]
               /\ client'[c].servers = client[c].servers \/ ServersOf(c) \in beside'[q]
    BY <2>2, <2>5 DEF Fresh, ClientsRead, People
  <2>6. AddressesRead(q)'
    BY <2>1, <2>3, <2>5 DEF Fresh, AddressesRead, At, People, WellFormed
  <2>7. ListsRead(q)'
    BY <2>1, <2>3, <2>5 DEF Fresh, ListsRead, At, People, WellFormed
  <2>8. NobodyUses(q)'
    <3>1. ASSUME NEW c \in Clients, client'[c] # None, req[q].at \in {"unlist", "drop"},
                 req[q].scope \subseteq client'[c].servers
          PROVE  ServersOf(c) \in beside'[q] \/ (At(q, "unlist") /\ c \in req[q].todo)
      BY <2>1, <2>2, <3>1 DEF Fresh, NobodyUses, People
    <3> QED BY <3>1 DEF NobodyUses, People, At
  <2>9. ChosenExist(q)'
    BY <2>1 DEF Fresh, ChosenExist, Names, Typed, TypeOK, Register
  <2> QED BY <1>1, <2>4, <2>6, <2>7, <2>8, <2>9 DEF Fresh
<1> QED BY <1>2, <1>3

AllFresh == \A r \in Requests : Fresh(r)

LEMMA FreshStep ==
    ASSUME Typed, AllFresh, NEW r \in Requests, NEW g, Set(r, g), Fresh(r)',
           \A q \in Requests \ {r} : Noticed(q)
    PROVE  AllFresh'
<1>1. \A q \in Requests \ {r} : req'[q] = req[q]
  BY SetEffect
<1> QED BY <1>1, NoticedFresh DEF AllFresh

\* A request that has ended has nothing to be fresh.
LEMMA EndedFresh ==
    ASSUME NEW r \in Requests, req'[r] = Idle
    PROVE  Fresh(r)'
BY DEF Idle, Fresh, At, RowsRead, AddressesRead, ListsRead, ClientsRead, NobodyUses, ChosenExist,
       Counted

-----------------------------------------------------------------------------
(* Reading *)

\* A step that writes no row spoils nothing.
ReadsQuietly(r) ==
    /\ UNCHANGED <<rows, ghosts>>
    /\ \A q \in Requests \ {r} : beside'[q] = beside[q]

LEMMA QuietNoticed ==
    ASSUME NEW r \in Requests, ReadsQuietly(r)
    PROVE  \A q \in Requests \ {r} : Noticed(q)
BY DEF ReadsQuietly, Noticed, rows, People

\* Clients are counted.
LEMMA PeopleCounted == IsFiniteSet(People) /\ Cardinality(People) \in Nat
<1>1. IsFiniteSet(People)
  BY ClientsAssumption, FS_Subset DEF People
<1> QED BY <1>1, FS_CardinalityType

LEMMA BeginFresh ==
    ASSUME Typed, AllFresh, NEW r \in Requests, NEW g, Begin(r, g),
           g.at \in {"list", "get", "using"} => g.people = Idle.people,
           g.at \in {"choose", "override", "assign"} => g.people \in {client, Idle.people},
           g.at = "choose" => (g.people = client /\ ~Full),
           g.at = "assign" => g.scope \subseteq Names,
           g.at \in {"list", "get", "using", "choose", "override", "assign"},
           g.at = "override" => g.people = client
    PROVE  AllFresh' /\ ReadsQuietly(r)
<1>1. Set(r, g) /\ ReadsQuietly(r) /\ UNCHANGED <<server, client, gone>>
  BY DEF Begin, ReadsQuietly, rows, Typed, TypeOK
<1>2. req'[r] = g
  BY <1>1, SetEffect
<1>3. ClientsRead(r)'
  BY <1>1, <1>2 DEF ClientsRead, People, Idle
<1>4. AddressesRead(r)'
  BY <1>1, <1>2 DEF AddressesRead, At, People
<1>5. ChosenExist(r)'
  BY <1>1, <1>2 DEF ChosenExist, Names
<1>6. Counted(r)'
  <2>1. CASE g.at = "choose" /\ ClientLimit > 0
    <3>1. {c \in Clients : req'[r].people[c] # None} = People
      BY <1>2, <2>1 DEF People
    <3>2. ~(Cardinality(People) >= ClientLimit)
      BY <2>1 DEF Full
    <3>3. Cardinality(People) < ClientLimit
      BY <3>2, LimitsAssumption, PeopleCounted
    <3> QED BY <3>1, <3>3 DEF Counted
  <2> QED BY <1>2, <2>1 DEF Counted
<1>7. RowsRead(r)' /\ ListsRead(r)' /\ NobodyUses(r)'
  BY <1>2 DEF RowsRead, ListsRead, NobodyUses, At
<1>8. Fresh(r)'
  BY <1>3, <1>4, <1>5, <1>6, <1>7 DEF Fresh
<1> QED BY <1>1, <1>8, QuietNoticed, FreshStep

LEMMA ArriveFresh ==
    ASSUME Typed, AllFresh, NEW r \in Requests, Arrive(r)
    PROVE  AllFresh' /\ ReadsQuietly(r)
<1>1. ASSUME NEW g, Begin(r, g), g.people = Idle.people, g.at \in {"list", "get", "using"}
      PROVE  AllFresh' /\ ReadsQuietly(r)
  BY <1>1, BeginFresh
<1>2. ASSUME NEW field, NEW value, NEW scope, EditCdn(r, field, value, scope)
      PROVE  AllFresh' /\ ReadsQuietly(r)
  <2>1. PICK g : g = [Idle EXCEPT !.at = "list", !.op = "cdn", !.field = field, !.value = value,
                                  !.scope = scope]
    OBVIOUS
  <2>2. g.people = Idle.people /\ g.at = "list"
    BY <2>1 DEF Idle
  <2> QED BY <1>1, <1>2, <2>1, <2>2 DEF EditCdn
<1>3. ASSUME NEW field, NEW value, NEW s, EditServer(r, s, field, value)
      PROVE  AllFresh' /\ ReadsQuietly(r)
  <2>1. PICK g : g = [Idle EXCEPT !.at = "get", !.field = field, !.value = value, !.todo = {s}]
    OBVIOUS
  <2>2. g.people = Idle.people /\ g.at = "get"
    BY <2>1 DEF Idle
  <2> QED BY <1>1, <1>3, <2>1, <2>2 DEF EditServer
<1>4. ASSUME NEW value, EditAddresses(r, value)
      PROVE  AllFresh' /\ ReadsQuietly(r)
  <2>1. PICK g : g = [Idle EXCEPT !.at = "list", !.op = "addresses", !.value = value]
    OBVIOUS
  <2>2. g.people = Idle.people /\ g.at = "list"
    BY <2>1 DEF Idle
  <2> QED BY <1>1, <1>4, <2>1, <2>2 DEF EditAddresses
<1>6. ASSUME NEW s, NEW force, DeleteServer(r, s, force)
      PROVE  AllFresh' /\ ReadsQuietly(r)
  <2>1. PICK g : g = [Idle EXCEPT !.at = "using", !.op = IF force THEN "force" ELSE "delete",
                                  !.scope = {s}]
    OBVIOUS
  <2>2. g.people = Idle.people /\ g.at = "using"
    BY <2>1 DEF Idle
  <2> QED BY <1>1, <1>6, <2>1, <2>2 DEF DeleteServer
<1>7. ASSUME NEW c, NEW scope, NEW value, EditClientIps(r, c, scope, value)
      PROVE  AllFresh' /\ ReadsQuietly(r)
  <2>1. PICK g : g = [Idle EXCEPT !.at = "override", !.op = "override", !.value = value,
                                  !.scope = scope, !.people = client, !.todo = {c}]
    OBVIOUS
  <2>2. g.people = client /\ g.at = "override"
    BY <2>1 DEF Idle
  <2> QED BY <1>7, <2>1, <2>2, BeginFresh DEF EditClientIps
<1>8. ASSUME NEW c, NEW list, Assign(r, c, list)
      PROVE  AllFresh' /\ ReadsQuietly(r)
  <2>1. PICK g : g = [Idle EXCEPT !.at = "assign", !.op = "assign", !.scope = list \cap Enabled,
                                  !.todo = {c}]
    OBVIOUS
  <2>2. g.people = Idle.people /\ g.at = "assign" /\ g.scope \subseteq Names
    BY <2>1 DEF Idle, Enabled
  <2> QED BY <1>8, <2>1, <2>2, BeginFresh DEF Assign
<1>9. CASE CreateClient(r)
  <2>1. PICK g : g = [Idle EXCEPT !.at = "choose", !.op = "create", !.people = client]
    OBVIOUS
  <2>2. g.people = client /\ g.at = "choose"
    BY <2>1 DEF Idle
  <2> QED BY <1>9, <2>1, <2>2, BeginFresh DEF CreateClient
<1> QED BY <1>2, <1>3, <1>4, <1>6, <1>7, <1>8, <1>9
        DEF Arrive, EditIps, EditHosts, EditPorts, AddDomain

\* A request reads: what it goes on with is what is there now.
LEMMA ReadFresh ==
    ASSUME Typed, AllFresh, NEW r \in Requests,
           List(r) \/ ListClients(r) \/ Get(r) \/ Using(r) \/ Choose(r)
    PROVE  AllFresh' /\ ReadsQuietly(r)
<1>1. ReadsQuietly(r) /\ UNCHANGED <<server, client, gone>>
  BY DEF List, ListClients, Get, Using, Choose, ReadsOnly, ReadsQuietly, rows, Typed, TypeOK
<1>2. ASSUME NEW g, Set(r, g), Fresh(r)'
      PROVE  AllFresh' /\ ReadsQuietly(r)
  BY <1>1, <1>2, QuietNoticed, FreshStep
<1>3. ASSUME Set(r, Idle)
      PROVE  AllFresh' /\ ReadsQuietly(r)
  BY <1>2, <1>3, SetEffect, EndedFresh
<1>4. req[r] \in Register /\ WellFormed(req[r]) /\ Fresh(r)
  BY DEF Typed, TypeOK, Registers, AllFresh
\* A stage at which nothing is remembered but servers, and clients as before.
<1>5. ASSUME NEW g, Set(r, g), g.people \in {req[r].people, client},
             g.at \in {"upsert", "get", "update"},
             g.at = "upsert" => g.all = server,
             g.at = "update" => g.who \in Servers /\ g.all[g.who] = server[g.who]
      PROVE  AllFresh' /\ ReadsQuietly(r)
  <2>1. req'[r] = g
    BY <1>5, SetEffect
  <2>2. RowsRead(r)'
    BY <1>1, <1>5, <2>1 DEF RowsRead, At
  <2>3. ClientsRead(r)'
    BY <1>1, <1>4, <1>5, <2>1 DEF Fresh, ClientsRead, People
  <2>4. AddressesRead(r)' /\ ListsRead(r)' /\ NobodyUses(r)' /\ ChosenExist(r)' /\ Counted(r)'
    BY <1>5, <2>1 DEF AddressesRead, ListsRead, NobodyUses, ChosenExist, Counted, At
  <2> QED BY <1>2, <1>5, <2>2, <2>3, <2>4 DEF Fresh
<1>6. CASE List(r)
  <2>1. ASSUME NEW targets, NEW phase, phase \in {"upsert", "get"},
               Set(r, [req[r] EXCEPT !.at = phase, !.all = server, !.scope = targets, !.todo = targets])
        PROVE  AllFresh' /\ ReadsQuietly(r)
    <3>1. PICK g : g = [req[r] EXCEPT !.at = phase, !.all = server, !.scope = targets, !.todo = targets]
      OBVIOUS
    <3>2. g.at = phase /\ g.all = server /\ g.people = req[r].people
      BY <1>4, <3>1 DEF Register
    <3> QED BY <1>5, <2>1, <3>1, <3>2
  <2> QED BY <1>3, <1>6, <2>1 DEF List
<1>8. CASE Get(r)
  <2>1. PICK s \in req[r].todo :
          IF server[s] = None THEN Rest(r, req[r].todo \ {s}, "idle")
          ELSE Set(r, [req[r] EXCEPT !.at = "update", !.who = s, !.all[s] = server[s]])
    BY <1>8 DEF Get
  <2>2. s \in Servers /\ req[r].at = "get"
    BY <1>4, <1>8 DEF Get, At, WellFormed
  <2>3. CASE server[s] = None
    <3>1. CASE Set(r, [req[r] EXCEPT !.todo = req[r].todo \ {s}])
      <4>1. PICK g : g = [req[r] EXCEPT !.todo = req[r].todo \ {s}]
        OBVIOUS
      <4>2. g.at = "get" /\ g.people = req[r].people
        BY <1>4, <2>2, <4>1 DEF Register
      <4> QED BY <1>5, <3>1, <4>1, <4>2
    <3> QED BY <1>3, <2>1, <2>3, <3>1 DEF Rest
  <2>4. CASE server[s] # None
    <3>1. PICK g : g = [req[r] EXCEPT !.at = "update", !.who = s, !.all[s] = server[s]]
      OBVIOUS
    <3>2. g.at = "update" /\ g.people = req[r].people /\ g.who = s /\ g.all[s] = server[s]
      BY <1>4, <2>2, <3>1 DEF Register
    <3> QED BY <1>5, <2>1, <2>2, <2>4, <3>1, <3>2
  <2> QED BY <2>3, <2>4
<1>9. CASE ListClients(r)
  <2>1. ASSUME NEW changed, Set(r, [req[r] EXCEPT !.at = "override", !.people = client, !.todo = changed])
        PROVE  AllFresh' /\ ReadsQuietly(r)
    <3>1. PICK g : g = [req[r] EXCEPT !.at = "override", !.people = client, !.todo = changed]
      OBVIOUS
    <3>2. g.at = "override" /\ g.people = client
      BY <1>4, <3>1 DEF Register
    <3>3. req'[r] = g
      BY <2>1, <3>1, SetEffect
    <3>4. ClientsRead(r)' /\ AddressesRead(r)'
      BY <1>1, <3>2, <3>3 DEF ClientsRead, AddressesRead, People
    <3>5. RowsRead(r)' /\ ListsRead(r)' /\ NobodyUses(r)' /\ ChosenExist(r)' /\ Counted(r)'
      BY <3>2, <3>3 DEF RowsRead, ListsRead, NobodyUses, ChosenExist, Counted, At
    <3> QED BY <1>2, <2>1, <3>1, <3>4, <3>5 DEF Fresh
  <2> QED BY <1>3, <1>9, <2>1 DEF ListClients
<1>10. CASE Using(r)
  <2>1. ASSUME NEW using, NEW phase, phase \in {"drop", "unlist"},
               using = {c \in People : req[r].scope \subseteq client[c].servers},
               phase = "drop" => using = {},
               Set(r, [req[r] EXCEPT !.at = phase, !.people = client, !.todo = using])
        PROVE  AllFresh' /\ ReadsQuietly(r)
    <3>1. PICK g : g = [req[r] EXCEPT !.at = phase, !.people = client, !.todo = using]
      OBVIOUS
    <3>2. g.at = phase /\ g.people = client /\ g.todo = using /\ g.scope = req[r].scope
      BY <1>4, <3>1 DEF Register
    <3>3. req'[r] = g
      BY <2>1, <3>1, SetEffect
    <3>4. ClientsRead(r)' /\ ListsRead(r)'
      BY <1>1, <3>2, <3>3 DEF ClientsRead, ListsRead, People
    <3>5. NobodyUses(r)'
      BY <1>1, <2>1, <3>2, <3>3 DEF NobodyUses, At, People
    <3>6. RowsRead(r)' /\ AddressesRead(r)' /\ ChosenExist(r)' /\ Counted(r)'
      BY <2>1, <3>2, <3>3 DEF RowsRead, AddressesRead, ChosenExist, Counted, At
    <3> QED BY <1>2, <2>1, <3>1, <3>4, <3>5, <3>6 DEF Fresh
  <2> QED BY <1>3, <1>10, <2>1 DEF Using
<1>11. CASE Choose(r)
  <2>1. CASE Set(r, [req[r] EXCEPT !.at = "insert", !.scope = Enabled])
    <3>1. PICK g : g = [req[r] EXCEPT !.at = "insert", !.scope = Enabled]
      OBVIOUS
    <3>2. g.at = "insert" /\ g.scope = Enabled /\ g.people = req[r].people
      BY <1>4, <3>1 DEF Register
    <3>3. req'[r] = g
      BY <2>1, <3>1, SetEffect
    <3>4. ClientsRead(r)' /\ ChosenExist(r)'
      BY <1>1, <1>4, <3>2, <3>3 DEF Fresh, ClientsRead, ChosenExist, People, Enabled, Names
    <3>5. Counted(r)'
      BY <1>4, <1>11, <3>2, <3>3 DEF Choose, At, Fresh, Counted
    <3>6. RowsRead(r)' /\ AddressesRead(r)' /\ ListsRead(r)' /\ NobodyUses(r)'
      BY <3>2, <3>3 DEF RowsRead, AddressesRead, ListsRead, NobodyUses, At
    <3> QED BY <1>2, <2>1, <3>1, <3>4, <3>5, <3>6 DEF Fresh
  <2> QED BY <1>3, <1>11, <2>1 DEF Choose
<1> QED BY <1>6, <1>8, <1>9, <1>10, <1>11

-----------------------------------------------------------------------------
(* Writing *)

LEMMA WritesEffect ==
    ASSUME Typed, NEW r \in Requests, NEW things, NEW spoilt, Writes(r, things, spoilt)
    PROVE  /\ \A q \in Requests \ {r} : At(q, "idle") \/ beside'[q] = beside[q] \cup things
           /\ beside'[r] = beside[r] /\ broken' = broken \cup spoilt
BY DEF Writes

LEMMA RestEffect ==
    ASSUME Typed, NEW r \in Requests, NEW todo, NEW phase, Rest(r, todo, phase)
    PROVE  \E g : /\ Set(r, g)
                  /\ \/ g = Idle
                     \/ /\ g.people = req[r].people /\ g.all = req[r].all /\ g.scope = req[r].scope
                        /\ \/ todo # {} /\ g.at = req[r].at /\ g.todo = todo
                           \/ todo = {} /\ phase # "idle" /\ g.at = phase /\ g.todo = {}
<1>1. req[r] \in Register
  BY DEF Typed, TypeOK
<1>2. CASE todo # {}
  <2>1. PICK g : g = [req[r] EXCEPT !.todo = todo]
    OBVIOUS
  <2>2. /\ g.people = req[r].people /\ g.all = req[r].all /\ g.scope = req[r].scope
        /\ g.at = req[r].at /\ g.todo = todo
    BY <1>1, <2>1 DEF Register
  <2> QED BY <1>2, <2>1, <2>2 DEF Rest
<1>3. CASE todo = {} /\ phase # "idle"
  <2>1. PICK g : g = [req[r] EXCEPT !.at = phase, !.todo = {}]
    OBVIOUS
  <2>2. /\ g.people = req[r].people /\ g.all = req[r].all /\ g.scope = req[r].scope
        /\ g.at = phase /\ g.todo = {}
    BY <1>1, <2>1 DEF Register
  <2> QED BY <1>3, <2>1, <2>2 DEF Rest
<1>4. CASE todo = {} /\ phase = "idle"
  BY <1>4 DEF Rest
<1> QED BY <1>2, <1>3, <1>4

\* No more clients than before that came in alone.
Room == ClientLimit > 0 => Cardinality(People \ broken) <= ClientLimit
Served == \A c \in People : ServersOf(c) \notin broken => client[c].servers \subseteq Names

LEMMA RoomStays ==
    ASSUME Room, \A c \in Clients : client'[c] # None /\ c \notin broken' =>
                                      client[c] # None /\ c \notin broken
    PROVE  Room'
<1>1. (People \ broken)' \subseteq People \ broken
  BY DEF People
<1>2. IsFiniteSet(People \ broken)
  BY PeopleCounted, FS_Subset
<1>3. /\ Cardinality((People \ broken)') <= Cardinality(People \ broken)
      /\ Cardinality((People \ broken)') \in Nat /\ Cardinality(People \ broken) \in Nat
  BY <1>1, <1>2, FS_Subset, FS_CardinalityType
<1> QED BY <1>3, LimitsAssumption DEF Room

\* One server is written.
LEMMA ServerNoticed ==
    ASSUME Typed, NEW r \in Requests, NEW s \in Servers, NEW spoilt, Writes(r, {s}, spoilt),
           \A u \in Servers \ {s} : server'[u] = server[u], UNCHANGED <<client, gone>>
    PROVE  \A q \in Requests \ {r} : Noticed(q)
BY WritesEffect DEF Noticed, People

LEMMA ServerStays ==
    ASSUME Typed, EditsStay, NEW r \in Requests, NEW s \in Servers, NEW spoilt, Writes(r, {s}, spoilt),
           \A u \in Servers \ {s} : server'[u] = server[u] /\ meant'[u] = meant[u],
           s \notin broken \cup spoilt => server'[s] = meant'[s], UNCHANGED <<client, meantIps>>
    PROVE  EditsStay'
BY WritesEffect DEF EditsStay, People

LEMMA ServerServed ==
    ASSUME Typed, Served, Room, NEW r \in Requests, NEW s \in Servers, NEW spoilt,
           Writes(r, {s}, spoilt), \A u \in Servers \ {s} : server'[u] = server[u], server'[s] # None,
           UNCHANGED client
    PROVE  Served' /\ Room'
<1>1. broken \subseteq broken'
  BY WritesEffect
<1>2. Names \subseteq Names'
  BY DEF Names
<1>3. Room'
  BY <1>1, RoomStays
<1>4. Served'
  BY <1>1, <1>2 DEF Served, People
<1> QED BY <1>3, <1>4

Intact == EditsStay /\ Served /\ Room

\* An edit of the row that was read: nothing is lost unless it was overtaken.
LEMMA EditStays ==
    ASSUME Typed, EditsStay, NEW r \in Requests, NEW s \in Servers, req[r].all[s] # None,
           s \in beside[r] \/ req[r].all[s] = server[s],
           server' = [server EXCEPT ![s] = Edited(req[r].all[s], req[r].field, req[r].value)],
           meant' = [meant EXCEPT ![s] = IF @ = None THEN None
                                         ELSE [@ EXCEPT ![req[r].field] = req[r].value]],
           Writes(r, {s}, Overtaken(r, {s})), UNCHANGED <<client, meantIps>>
    PROVE  EditsStay'
<1>1. \A u \in Servers \ {s} : server'[u] = server[u] /\ meant'[u] = meant[u]
  BY DEF Typed, TypeOK
<1>2. s \notin broken \cup Overtaken(r, {s}) => server'[s] = meant'[s]
  <2>1. SUFFICES ASSUME s \notin broken, s \notin beside[r]
                 PROVE  server'[s] = meant'[s]
    BY DEF Overtaken
  <2>2. req[r].all[s] = server[s] /\ server[s] = meant[s]
    BY <2>1 DEF EditsStay
  <2>3. /\ server'[s] = Edited(req[r].all[s], req[r].field, req[r].value)
        /\ meant'[s] = IF meant[s] = None THEN None ELSE [meant[s] EXCEPT ![req[r].field] = req[r].value]
    BY DEF Typed, TypeOK
  <2> QED BY <2>2, <2>3 DEF Edited
<1> QED BY <1>1, <1>2, ServerStays

LEMMA UpsertSafe ==
    ASSUME Typed, AllFresh, Intact, NEW r \in Requests, Upsert(r)
    PROVE  AllFresh' /\ Intact'
<1>1. req[r] \in Register /\ WellFormed(req[r]) /\ Fresh(r) /\ req[r].at = "upsert"
  BY DEF Typed, TypeOK, Registers, AllFresh, Upsert, At
<1>2. PICK s \in req[r].todo :
         /\ server' = [server EXCEPT ![s] = Edited(req[r].all[s], req[r].field, req[r].value)]
         /\ meant' = [meant EXCEPT ![s] = IF @ = None THEN None ELSE [@ EXCEPT ![req[r].field] = req[r].value]]
         /\ Writes(r, {s}, Overtaken(r, {s}))
         /\ Rest(r, req[r].todo \ {s}, IF req[r].field = "ip" THEN "clients" ELSE "idle")
  BY DEF Upsert
<1>3. /\ s \in Servers /\ req[r].all[s] # None
      /\ s \in beside[r] \/ req[r].all[s] = server[s]
  BY <1>1 DEF WellFormed, Fresh, RowsRead, At
<1>4. UNCHANGED <<client, gone, meantIps>>
  BY DEF Upsert
<1>5. EditsStay'
  BY <1>2, <1>3, <1>4, EditStays DEF Intact
<1>6. server'[s] # None
  <2>1. Edited(req[r].all[s], req[r].field, req[r].value) \in Row
    BY <1>1, <1>3, EditedTyped DEF Register, WellFormed, Consistent
  <2> QED BY <1>2, <1>3, <2>1, NoneAssumption DEF Typed, TypeOK
<1>7. \A u \in Servers \ {s} : server'[u] = server[u]
  BY <1>2 DEF Typed, TypeOK
<1>8. Served' /\ Room'
  BY <1>2, <1>3, <1>4, <1>6, <1>7, ServerServed DEF Intact
<1>9. AllFresh'
  <2>1. PICK g : /\ Set(r, g)
                 /\ \/ g = Idle
                    \/ /\ g.people = req[r].people /\ g.all = req[r].all
                       /\ \/ g.at = "upsert" /\ g.todo = req[r].todo \ {s}
                          \/ g.at = "clients"
    BY <1>1, <1>2, RestEffect
  <2>2. req'[r] = g /\ beside'[r] = beside[r]
    BY <1>2, <2>1, SetEffect, WritesEffect
  <2>3. ASSUME g # Idle
        PROVE  Fresh(r)'
    <3>1. RowsRead(r)'
      BY <1>1, <1>7, <2>1, <2>2, <2>3 DEF Fresh, RowsRead, At, WellFormed
    <3>2. ClientsRead(r)'
      BY <1>1, <1>4, <2>1, <2>2, <2>3 DEF Fresh, ClientsRead, People
    <3>3. AddressesRead(r)' /\ ListsRead(r)' /\ NobodyUses(r)' /\ ChosenExist(r)' /\ Counted(r)'
      BY <2>1, <2>2, <2>3 DEF AddressesRead, ListsRead, NobodyUses, ChosenExist, Counted, At
    <3> QED BY <3>1, <3>2, <3>3 DEF Fresh
  <2>4. Fresh(r)'
    BY <2>2, <2>3, EndedFresh
  <2> QED BY <1>2, <1>3, <1>4, <1>7, <2>1, <2>4, ServerNoticed, FreshStep
<1> QED BY <1>5, <1>8, <1>9 DEF Intact

LEMMA UpdateSafe ==
    ASSUME Typed, AllFresh, Intact, NEW r \in Requests, Update(r)
    PROVE  AllFresh' /\ Intact'
<1>1. req[r] \in Register /\ WellFormed(req[r]) /\ Fresh(r) /\ req[r].at = "update"
  BY DEF Typed, TypeOK, Registers, AllFresh, Update, At
<1>2. PICK s \in Servers : s = req[r].who
  BY <1>1 DEF WellFormed
<1>3. req[r].all[s] # None /\ (s \in beside[r] \/ req[r].all[s] = server[s])
  BY <1>1, <1>2 DEF WellFormed, Fresh, RowsRead, At
<1>4. UNCHANGED <<client, gone, meantIps>>
  BY DEF Update
<1>5. Set(r, Idle) \/ Set(r, [req[r] EXCEPT !.at = "get", !.who = None, !.todo = @ \ {s}])
  BY <1>2 DEF Update
<1>6. Fresh(r)'
  <2>1. PICK g : /\ Set(r, g) /\ (g = Idle \/ (g.at = "get" /\ g.people = req[r].people))
    <3>1. PICK h : h = [req[r] EXCEPT !.at = "get", !.who = None, !.todo = @ \ {s}]
      OBVIOUS
    <3>2. h.at = "get" /\ h.people = req[r].people
      BY <1>1, <3>1 DEF Register
    <3> QED BY <1>5, <3>1, <3>2
  <2>2. req'[r] = g
    BY <2>1, SetEffect
  <2>3. CASE g # Idle
    <3>1. ClientsRead(r)'
      BY <1>1, <1>4, <2>1, <2>2, <2>3 DEF Fresh, ClientsRead, People
    <3>2. /\ RowsRead(r)' /\ AddressesRead(r)' /\ ListsRead(r)' /\ NobodyUses(r)'
          /\ ChosenExist(r)' /\ Counted(r)'
      BY <2>1, <2>2, <2>3 DEF RowsRead, AddressesRead, ListsRead, NobodyUses, ChosenExist, Counted, At
    <3> QED BY <3>1, <3>2 DEF Fresh
  <2> QED BY <2>2, <2>3, EndedFresh
<1>7. CASE server[s] = None
  <2>1. UNCHANGED <<server, meant, beside, broken>>
    BY <1>2, <1>7 DEF Update
  <2>2. \A q \in Requests \ {r} : Noticed(q)
    BY <1>4, <2>1 DEF Noticed, People
  <2>3. Intact'
    BY <1>4, <2>1 DEF Intact, EditsStay, Served, Room, People, Names
  <2> QED BY <1>5, <1>6, <2>2, <2>3, FreshStep
<1>8. CASE server[s] # None
  <2>1. /\ server' = [server EXCEPT ![s] = Edited(req[r].all[s], req[r].field, req[r].value)]
        /\ meant' = [meant EXCEPT ![s] = IF @ = None THEN None
                                         ELSE [@ EXCEPT ![req[r].field] = req[r].value]]
        /\ Writes(r, {s}, Overtaken(r, {s}))
    BY <1>2, <1>8 DEF Update
  <2>2. EditsStay'
    BY <1>3, <1>4, <2>1, EditStays DEF Intact
  <2>3. server'[s] # None
    <3>1. Edited(req[r].all[s], req[r].field, req[r].value) \in Row
      BY <1>1, <1>3, EditedTyped DEF Register, WellFormed, Consistent
    <3> QED BY <2>1, <3>1, NoneAssumption DEF Typed, TypeOK
  <2>4. \A u \in Servers \ {s} : server'[u] = server[u]
    BY <2>1 DEF Typed, TypeOK
  <2>5. Served' /\ Room'
    BY <1>4, <2>1, <2>3, <2>4, ServerServed DEF Intact
  <2>6. \A q \in Requests \ {r} : Noticed(q)
    BY <1>4, <2>1, <2>4, ServerNoticed
  <2> QED BY <1>5, <1>6, <2>2, <2>5, <2>6, FreshStep DEF Intact
<1> QED BY <1>7, <1>8

\* A deletion takes the server from whoever was using it, but for those whom
\* others have given it to meanwhile.
LEMMA DropSafe ==
    ASSUME Typed, AllFresh, Intact, NEW r \in Requests, Drop(r)
    PROVE  AllFresh' /\ Intact'
<1>1. PICK s \in Servers :
        /\ req[r].scope = {s} /\ server' = [server EXCEPT ![s] = None]
        /\ meant' = [meant EXCEPT ![s] = None]
        /\ Writes(r, {s}, Overtaken(r, {ServersOf(c) : c \in {p \in People : s \in client[p].servers}}))
  BY DropTyped
<1>2. /\ req[r].at = "drop" /\ Fresh(r) /\ Set(r, Idle) /\ UNCHANGED <<client, gone, meantIps>>
  BY DEF Drop, At, AllFresh
<1>3. /\ server'[s] = None /\ meant'[s] = None
      /\ \A u \in Servers \ {s} : server'[u] = server[u] /\ meant'[u] = meant[u]
  BY <1>1 DEF Typed, TypeOK
<1>4. EditsStay'
  BY <1>1, <1>2, <1>3, ServerStays DEF Intact
<1>5. /\ broken \subseteq broken'
      /\ \A c \in People : (s \in client[c].servers /\ ServersOf(c) \in beside[r]) => ServersOf(c) \in broken'
  BY <1>1, WritesEffect DEF Overtaken
<1>6. Served'
  <2>1. ASSUME NEW c \in People, ServersOf(c) \notin broken'
        PROVE  client[c].servers \subseteq Names'
    <3>1. client[c].servers \subseteq Names
      BY <1>5, <2>1 DEF Intact, Served
    <3>2. s \notin client[c].servers
      BY <1>1, <1>2, <1>5, <2>1 DEF Fresh, NobodyUses, At
    <3> QED BY <1>3, <3>1, <3>2 DEF Names
  <2> QED BY <1>2, <2>1 DEF Served, People
<1>7. Room'
  BY <1>2, <1>5, RoomStays DEF Intact
<1>8. Fresh(r)'
  BY <1>2, SetEffect, EndedFresh
<1>9. AllFresh'
  BY <1>1, <1>2, <1>3, <1>8, ServerNoticed, FreshStep
<1> QED BY <1>4, <1>6, <1>7, <1>9 DEF Intact

-----------------------------------------------------------------------------
(* Writing clients *)

\* The addresses of one client are written.
LEMMA OverrideSafe ==
    ASSUME Typed, AllFresh, Intact, NEW r \in Requests, Override(r)
    PROVE  AllFresh' /\ Intact'
<1>1. req[r] \in Register /\ WellFormed(req[r]) /\ Fresh(r) /\ req[r].at = "override"
  BY DEF Typed, TypeOK, Registers, AllFresh, Override, At
<1>2. PICK c \in req[r].todo :
         /\ IF client[c] = None THEN UNCHANGED <<client, meantIps, beside, broken>>
            ELSE /\ client' = [client EXCEPT ![c].ips =
                                  Overridden(req[r].people[c].ips, req[r].scope, req[r].value)]
                 /\ meantIps' = [meantIps EXCEPT ![c] = Overridden(@, req[r].scope, req[r].value)]
                 /\ Writes(r, {AddressesOf(c)}, Overtaken(r, {AddressesOf(c)}))
         /\ Rest(r, req[r].todo \ {c}, "idle")
  BY DEF Override
<1>3. c \in Clients /\ UNCHANGED <<server, gone, meant>>
  BY <1>1 DEF WellFormed, Override
<1>4. PICK g : /\ Set(r, g)
               /\ \/ g = Idle
                  \/ g.people = req[r].people /\ g.at = "override" /\ g.todo = req[r].todo \ {c}
  BY <1>1, <1>2, RestEffect
<1>5. req'[r] = g
  BY <1>4, SetEffect
<1>6. ASSUME \A x \in Clients \ {c} : client'[x] = client[x], client'[c] = None <=> client[c] = None,
             beside'[r] = beside[r]
      PROVE  Fresh(r)'
  <2>1. ASSUME g # Idle
        PROVE  Fresh(r)'
    <3>1. AddressesRead(r)'
      BY <1>1, <1>4, <1>5, <1>6, <2>1 DEF Fresh, AddressesRead, At, People
    <3>2. ClientsRead(r)'
      BY <1>1, <1>3, <1>4, <1>5, <1>6, <2>1 DEF Fresh, ClientsRead, People
    <3>3. RowsRead(r)' /\ ListsRead(r)' /\ NobodyUses(r)' /\ ChosenExist(r)' /\ Counted(r)'
      BY <1>4, <1>5, <2>1 DEF RowsRead, ListsRead, NobodyUses, ChosenExist, Counted, At
    <3> QED BY <3>1, <3>2, <3>3 DEF Fresh
  <2> QED BY <1>5, <2>1, EndedFresh
<1>7. CASE client[c] = None
  <2>1. UNCHANGED <<client, meantIps, beside, broken>>
    BY <1>2, <1>7
  <2>2. \A q \in Requests \ {r} : Noticed(q)
    BY <1>3, <2>1 DEF Noticed, People
  <2>3. Intact'
    BY <1>3, <2>1 DEF Intact, EditsStay, Served, Room, People, Names
  <2> QED BY <1>4, <1>6, <2>1, <2>2, <2>3, FreshStep
<1>8. CASE client[c] # None
  <2>1. /\ client' = [client EXCEPT ![c].ips =
                        Overridden(req[r].people[c].ips, req[r].scope, req[r].value)]
        /\ meantIps' = [meantIps EXCEPT ![c] = Overridden(@, req[r].scope, req[r].value)]
        /\ Writes(r, {AddressesOf(c)}, Overtaken(r, {AddressesOf(c)}))
    BY <1>2, <1>8
  <2>2. client[c] \in Person
    BY <1>3, <1>8 DEF Typed, TypeOK
  <2>3. PICK record : record = [client[c] EXCEPT !.ips = Overridden(req[r].people[c].ips, req[r].scope, req[r].value)]
    OBVIOUS
  <2>4. /\ record.servers = client[c].servers
        /\ record.ips = Overridden(req[r].people[c].ips, req[r].scope, req[r].value)
    BY <2>2, <2>3 DEF Person
  <2>5. client'[c] = record /\ \A x \in Clients \ {c} : client'[x] = client[x] /\ meantIps'[x] = meantIps[x]
    BY <1>3, <2>1, <2>3 DEF Typed, TypeOK
  <2>6. client'[c] # None
    <3>1. Overridden(req[r].people[c].ips, req[r].scope, req[r].value) \in Addresses
      BY <1>1, <1>3, OverriddenTyped DEF Register, WellFormed, Person
    <3>2. record \in Person
      BY <2>2, <2>3, <3>1 DEF Person
    <3> QED BY <2>5, <3>2, NoneAssumption
  <2>7. /\ \A q \in Requests \ {r} : At(q, "idle") \/ beside'[q] = beside[q] \cup {AddressesOf(c)}
        /\ beside'[r] = beside[r] /\ broken' = broken \cup Overtaken(r, {AddressesOf(c)})
    BY <2>1, WritesEffect
  <2>8. \A q \in Requests \ {r} : Noticed(q)
    BY <1>3, <1>8, <2>4, <2>5, <2>6, <2>7 DEF Noticed, People
  <2>9. EditsStay'
    <3>1. AddressesOf(c) \notin broken' => client'[c].ips = meantIps'[c]
      <4>1. SUFFICES ASSUME AddressesOf(c) \notin broken, AddressesOf(c) \notin beside[r]
                     PROVE  client'[c].ips = meantIps'[c]
        BY <2>7 DEF Overtaken
      <4>2. req[r].people[c].ips = client[c].ips /\ client[c].ips = meantIps[c]
        BY <1>1, <1>3, <1>8, <4>1 DEF Fresh, AddressesRead, At, People, Intact, EditsStay
      <4>3. meantIps'[c] = Overridden(meantIps[c], req[r].scope, req[r].value)
        BY <1>3, <2>1 DEF Typed, TypeOK
      <4> QED BY <2>4, <2>5, <4>2, <4>3
    <3>2. \A x \in Clients \ {c} : client'[x] # None /\ AddressesOf(x) \notin broken' =>
                                     client'[x].ips = meantIps'[x]
      BY <2>5, <2>7 DEF Intact, EditsStay, People
    <3>3. \A s \in Servers \ broken' : server'[s] = meant'[s]
      BY <1>3, <2>7 DEF Intact, EditsStay
    <3> QED BY <3>1, <3>2, <3>3 DEF EditsStay, People
  <2>10. Served'
    BY <1>3, <1>8, <2>4, <2>5, <2>7 DEF Intact, Served, People, Names
  <2>11. Room'
    BY <1>8, <2>5, <2>7, RoomStays DEF Intact
  <2>12. Fresh(r)'
    BY <1>6, <1>8, <2>5, <2>6, <2>7
  <2> QED BY <1>4, <2>8, <2>9, <2>10, <2>11, <2>12, FreshStep DEF Intact
<1> QED BY <1>7, <1>8

\* A client is given a list: of what it had, or of what was there.
LEMMA GiveServersSafe ==
    ASSUME Typed, Intact, NEW r \in Requests, NEW c \in Clients, NEW to \in SUBSET Servers,
           GiveServers(r, c, to),
           \/ client[c] = None \/ ServersOf(c) \in beside[r] \/ to \subseteq client[c].servers
           \/ to \subseteq Names \cup beside[r]
    PROVE  /\ Intact' /\ \A q \in Requests \ {r} : Noticed(q)
           /\ beside'[r] = beside[r] /\ UNCHANGED <<server, gone>>
           /\ \A x \in Clients \ {c} : client'[x] = client[x]
           /\ client'[c] = None <=> client[c] = None
           /\ client'[c] # None => client'[c].servers = to
<1>1. UNCHANGED <<server, gone, meant, meantIps>>
  BY DEF GiveServers
<1>2. CASE client[c] = None
  <2>1. UNCHANGED <<client, beside, broken>>
    BY <1>2 DEF GiveServers
  <2>2. \A q \in Requests \ {r} : Noticed(q)
    BY <1>1, <2>1 DEF Noticed, People
  <2>3. Intact'
    BY <1>1, <2>1 DEF Intact, EditsStay, Served, Room, People, Names
  <2> QED BY <1>1, <1>2, <2>1, <2>2, <2>3
<1>3. CASE client[c] # None
  <2>1. PICK spoilt : /\ Writes(r, {ServersOf(c)}, spoilt)
                      /\ spoilt = IF Overtaken(r, {ServersOf(c)}) # {} \/ Dropped(r, to) # {}
                                  THEN {ServersOf(c)} ELSE {}
    BY <1>3 DEF GiveServers
  <2>2. client[c] \in Person
    BY <1>3 DEF Typed, TypeOK
  <2>3. PICK record : record = [client[c] EXCEPT !.servers = to]
    OBVIOUS
  <2>4. record \in Person /\ record.servers = to /\ record.ips = client[c].ips /\ record # None
    BY <2>2, <2>3, NoneAssumption DEF Person
  <2>5. client'[c] = record /\ \A x \in Clients \ {c} : client'[x] = client[x]
    BY <1>3, <2>3 DEF GiveServers, Typed, TypeOK
  <2>6. /\ \A q \in Requests \ {r} : At(q, "idle") \/ beside'[q] = beside[q] \cup {ServersOf(c)}
        /\ beside'[r] = beside[r] /\ broken' = broken \cup spoilt
    BY <2>1, WritesEffect
  <2>7. \A q \in Requests \ {r} : Noticed(q)
    BY <1>1, <1>3, <2>4, <2>5, <2>6 DEF Noticed, People
  <2>8. EditsStay'
    <3>1. \A x \in Clients : client'[x] # None => client[x] # None /\ client'[x].ips = client[x].ips
      BY <1>3, <2>4, <2>5
    <3> QED BY <1>1, <2>6, <3>1 DEF Intact, EditsStay, People
  <2>9. Served'
    <3>1. ServersOf(c) \notin broken' => to \subseteq Names
      <4>1. SUFFICES ASSUME ServersOf(c) \notin broken, ServersOf(c) \notin beside[r],
                            (to \cap beside[r]) \ Names = {}
                     PROVE  to \subseteq Names
        BY <2>1, <2>6 DEF Overtaken, Dropped
      <4>2. client[c].servers \subseteq Names
        BY <1>3, <4>1 DEF Intact, Served, People
      <4> QED BY <1>3, <4>1, <4>2
    <3>2. \A x \in Clients \ {c} : client'[x] # None /\ ServersOf(x) \notin broken' =>
                                     client'[x].servers \subseteq Names
      BY <2>5, <2>6 DEF Intact, Served, People
    <3>3. Names' = Names
      BY <1>1 DEF Names
    <3> QED BY <2>4, <2>5, <3>1, <3>2, <3>3 DEF Served, People
  <2>10. Room'
    BY <1>3, <2>5, <2>6, RoomStays DEF Intact
  <2> QED BY <1>1, <1>3, <2>4, <2>5, <2>6, <2>7, <2>8, <2>9, <2>10 DEF Intact
<1> QED BY <1>2, <1>3

LEMMA UnlistSafe ==
    ASSUME Typed, AllFresh, Intact, NEW r \in Requests, Unlist(r)
    PROVE  AllFresh' /\ Intact'
<1>1. req[r] \in Register /\ WellFormed(req[r]) /\ Fresh(r) /\ req[r].at = "unlist"
  BY DEF Typed, TypeOK, Registers, AllFresh, Unlist, At
<1>2. PICK c \in req[r].todo : /\ GiveServers(r, c, req[r].people[c].servers \ req[r].scope)
                               /\ Rest(r, req[r].todo \ {c}, "drop")
  BY DEF Unlist
<1>3. PICK to \in SUBSET Servers : to = req[r].people[c].servers \ req[r].scope
  BY <1>1 DEF Register, WellFormed, Person
<1>4. /\ c \in Clients
      /\ client[c] = None \/ ServersOf(c) \in beside[r] \/ to \subseteq client[c].servers
  BY <1>1, <1>3 DEF WellFormed, Fresh, ListsRead, At, People
<1>5. /\ Intact' /\ \A q \in Requests \ {r} : Noticed(q)
      /\ beside'[r] = beside[r] /\ UNCHANGED <<server, gone>>
      /\ \A x \in Clients \ {c} : client'[x] = client[x]
      /\ client'[c] = None <=> client[c] = None
      /\ client'[c] # None => client'[c].servers = to
  BY <1>2, <1>3, <1>4, GiveServersSafe
<1>6. PICK g : /\ Set(r, g)
               /\ \/ g = Idle
                  \/ /\ g.people = req[r].people /\ g.scope = req[r].scope
                     /\ g.todo = req[r].todo \ {c}
                     /\ g.at = "unlist" \/ (g.at = "drop" /\ g.todo = {})
  BY <1>1, <1>2, RestEffect
<1>7. req'[r] = g
  BY <1>6, SetEffect
<1>8. ASSUME g # Idle
      PROVE  Fresh(r)'
  <2>1. ClientsRead(r)'
    BY <1>1, <1>5, <1>6, <1>7, <1>8 DEF Fresh, ClientsRead, People
  <2>2. ListsRead(r)'
    BY <1>1, <1>5, <1>6, <1>7, <1>8 DEF Fresh, ListsRead, At, People
  <2>3. ~(req[r].scope \subseteq to)
    BY <1>1, <1>3 DEF WellFormed
  <2>4. NobodyUses(r)'
    <3>1. ASSUME NEW x \in Clients, client'[x] # None, req[r].scope \subseteq client'[x].servers
          PROVE  ServersOf(x) \in beside[r] \/ x \in req[r].todo \ {c}
      <4>1. x # c
        BY <1>5, <2>3, <3>1
      <4> QED BY <1>1, <1>5, <3>1, <4>1 DEF Fresh, NobodyUses, At, People
    <3> QED BY <1>5, <1>6, <1>7, <1>8, <3>1 DEF NobodyUses, At, People
  <2>5. RowsRead(r)' /\ AddressesRead(r)' /\ ChosenExist(r)' /\ Counted(r)'
    BY <1>6, <1>7, <1>8 DEF RowsRead, AddressesRead, ChosenExist, Counted, At
  <2> QED BY <2>1, <2>2, <2>4, <2>5 DEF Fresh
<1>9. Fresh(r)'
  BY <1>7, <1>8, EndedFresh
<1> QED BY <1>5, <1>6, <1>9, FreshStep

LEMMA WriteAssignedSafe ==
    ASSUME Typed, AllFresh, Intact, NEW r \in Requests, WriteAssigned(r)
    PROVE  AllFresh' /\ Intact'
<1>1. req[r] \in Register /\ WellFormed(req[r]) /\ Fresh(r) /\ req[r].at = "assign" /\ Set(r, Idle)
  BY DEF Typed, TypeOK, Registers, AllFresh, WriteAssigned, At
<1>2. PICK c \in req[r].todo : GiveServers(r, c, req[r].scope)
  BY DEF WriteAssigned
<1>3. c \in Clients /\ req[r].scope \in SUBSET Servers /\ req[r].scope \subseteq Names \cup beside[r]
  BY <1>1 DEF Register, WellFormed, Fresh, ChosenExist
<1>4. Intact' /\ \A q \in Requests \ {r} : Noticed(q)
  BY <1>2, <1>3, GiveServersSafe
<1>5. Fresh(r)'
  BY <1>1, SetEffect, EndedFresh
<1> QED BY <1>1, <1>4, <1>5, FreshStep

\* A new client: room was counted for it, unless others have come in since.
LEMMA InsertSafe ==
    ASSUME Typed, AllFresh, Intact, NEW r \in Requests, Insert(r)
    PROVE  AllFresh' /\ Intact'
<1>1. PICK c \in Clients : \E spoilt :
        /\ Unused(c)
        /\ client' = [client EXCEPT ![c] = [servers |-> req[r].scope, ips |-> NoIps, active |-> TRUE]]
        /\ meantIps' = [meantIps EXCEPT ![c] = NoIps]
        /\ Writes(r, {ServersOf(c)}, spoilt)
        /\ spoilt = (IF \E x \in People : req[r].people[x] = None THEN {c} ELSE {})
                    \cup (IF Dropped(r, req[r].scope) # {} THEN {ServersOf(c)} ELSE {})
  BY InsertEffect
<1>0. PICK spoilt :
        /\ Unused(c)
        /\ client' = [client EXCEPT ![c] = [servers |-> req[r].scope, ips |-> NoIps, active |-> TRUE]]
        /\ meantIps' = [meantIps EXCEPT ![c] = NoIps]
        /\ Writes(r, {ServersOf(c)}, spoilt)
        /\ spoilt = (IF \E x \in People : req[r].people[x] = None THEN {c} ELSE {})
                    \cup (IF Dropped(r, req[r].scope) # {} THEN {ServersOf(c)} ELSE {})
  BY <1>1
<1>2. /\ Set(r, Idle) /\ Fresh(r) /\ req[r].at = "insert" /\ UNCHANGED <<server, gone, meant>>
  BY DEF Insert, AllFresh, At
<1>3. PICK record : record = [servers |-> req[r].scope, ips |-> NoIps, active |-> TRUE]
  OBVIOUS
<1>4. record \in Person /\ record # None /\ record.servers = req[r].scope /\ record.ips = NoIps
  <2>1. req[r].scope \subseteq Servers
    BY DEF Typed, TypeOK, Register
  <2>2. NoIps \in Addresses
    BY DEF NoIps, Addresses
  <2>3. record \in Person
    BY <1>3, <2>1, <2>2 DEF Person
  <2> QED BY <1>3, <2>3, NoneAssumption
<1>5. /\ client'[c] = record /\ meantIps'[c] = NoIps
      /\ \A x \in Clients \ {c} : client'[x] = client[x] /\ meantIps'[x] = meantIps[x]
  BY <1>0, <1>3 DEF Typed, TypeOK
<1>6. /\ \A q \in Requests \ {r} : At(q, "idle") \/ beside'[q] = beside[q] \cup {ServersOf(c)}
      /\ beside'[r] = beside[r] /\ broken' = broken \cup spoilt
  BY <1>0, WritesEffect
<1>7. \A q \in Requests \ {r} : Noticed(q)
  <2>1. \A x \in Clients : x \in People \cup gone => client'[x] # None \/ x \in gone'
    BY <1>0, <1>2, <1>5 DEF Unused, People
  <2> QED BY <1>0, <1>2, <1>5, <1>6, <2>1 DEF Noticed, Unused
<1>8. EditsStay'
  BY <1>2, <1>4, <1>5, <1>6 DEF Intact, EditsStay, People
<1>9. Served'
  <2>1. ServersOf(c) \notin broken' => record.servers \subseteq Names
    BY <1>0, <1>2, <1>4, <1>6 DEF Dropped, Fresh, ChosenExist, At
  <2>2. Names' = Names
    BY <1>2 DEF Names
  <2> QED BY <1>5, <1>6, <2>1, <2>2 DEF Intact, Served, People
<1>10. Room'
  <2>1. CASE \E x \in People : req[r].people[x] = None
    <3>1. c \in broken'
      BY <1>0, <1>6, <2>1
    <3> QED BY <1>5, <1>6, <3>1, RoomStays DEF Intact
  <2>2. CASE ClientLimit > 0 /\ ~(\E x \in People : req[r].people[x] = None)
    <3>1. PICK counted : counted = {x \in Clients : req[r].people[x] # None}
      OBVIOUS
    <3>2. IsFiniteSet(counted) /\ Cardinality(counted) \in Nat /\ Cardinality(counted) < ClientLimit
      BY <1>2, <2>2, <3>1, ClientsAssumption, FS_Subset, FS_CardinalityType DEF Fresh, Counted
    <3>3. /\ IsFiniteSet(counted \cup {c}) /\ Cardinality(counted \cup {c}) \in Nat
          /\ Cardinality(counted \cup {c}) <= Cardinality(counted) + 1
      <4>1. /\ IsFiniteSet(counted \cup {c})
            /\ Cardinality(counted \cup {c}) = IF c \in counted THEN Cardinality(counted)
                                                ELSE Cardinality(counted) + 1
        BY <3>2, FS_AddElement
      <4>2. Cardinality(counted \cup {c}) \in Nat
        BY <4>1, FS_CardinalityType
      <4> QED BY <3>2, <4>1, <4>2
    <3>4. (People \ broken)' \subseteq counted \cup {c}
      BY <1>5, <2>2, <3>1 DEF People
    <3>5. /\ Cardinality((People \ broken)') \in Nat
          /\ Cardinality((People \ broken)') <= Cardinality(counted \cup {c})
      BY <3>3, <3>4, FS_Subset, FS_CardinalityType
    <3> QED BY <3>2, <3>3, <3>5, LimitsAssumption DEF Room
  <2> QED BY <2>1, <2>2 DEF Room
<1>11. Fresh(r)'
  BY <1>2, SetEffect, EndedFresh
<1> QED BY <1>2, <1>7, <1>8, <1>9, <1>10, <1>11, FreshStep DEF Intact

-----------------------------------------------------------------------------
(* The steps of no request, and the step *)

\* Nothing is written.
LEMMA QuietIntact ==
    ASSUME Intact, UNCHANGED <<rows, ghosts>>
    PROVE  Intact'
BY DEF rows, ghosts, Intact, EditsStay, Served, Room, People, Names

LEMMA PanelSafe ==
    ASSUME Typed, AllFresh, Intact, (\E c \in Clients : Switch(c) \/ DeleteClient(c)) \/ Restart
    PROVE  AllFresh' /\ Intact'
<1>1. ASSUME NEW c \in Clients, Switch(c) \/ DeleteClient(c)
      PROVE  AllFresh' /\ Intact'
  <2>1. UNCHANGED <<server, req, meant, meantIps, beside, broken>>
    BY <1>1 DEF Switch, DeleteClient, ghosts
  <2>2. \A x \in Clients : client'[x] # None => /\ client[x] # None
                                                 /\ client'[x].ips = client[x].ips
                                                 /\ client'[x].servers = client[x].servers
    <3>1. CASE Switch(c)
      <4>1. client[c] \in Person
        BY <3>1 DEF Switch, People, Typed, TypeOK
      <4>2. PICK record : record = [client[c] EXCEPT !.active = ~@]
        OBVIOUS
      <4>3. record.ips = client[c].ips /\ record.servers = client[c].servers
        BY <4>1, <4>2 DEF Person
      <4>4. client[c] # None /\ client'[c] = record /\ \A x \in Clients \ {c} : client'[x] = client[x]
        BY <3>1, <4>2 DEF Switch, People, Typed, TypeOK
      <4> QED BY <4>3, <4>4
    <3>2. CASE DeleteClient(c)
      BY <3>2 DEF DeleteClient, People, Typed, TypeOK
    <3> QED BY <1>1, <3>1, <3>2
  <2>3. \A x \in Clients : x \in People \cup gone => (client'[x] # None \/ x \in gone')
    <3>1. CASE Switch(c)
      <4>1. [client[c] EXCEPT !.active = ~@] \in Person
        BY <3>1 DEF Switch, People, Typed, TypeOK, Person
      <4> QED BY <3>1, <4>1, NoneAssumption DEF Switch, People, Typed, TypeOK
    <3>2. CASE DeleteClient(c)
      BY <3>2 DEF DeleteClient, People, Typed, TypeOK
    <3> QED BY <1>1, <3>1, <3>2
  <2>4. \A q \in Requests : Noticed(q)
    <3>1. \A x \in Clients :
             \/ client'[x] \in {client[x], None}
             \/ client[x] = None /\ x \notin gone /\ FALSE
             \/ /\ client[x] # None
                /\ client'[x].ips = client[x].ips
                /\ client'[x].servers = client[x].servers
      BY <2>2
    <3> QED BY <2>1, <2>3, <3>1 DEF Noticed
  <2>5. AllFresh'
    BY <2>1, <2>4, NoticedFresh DEF AllFresh
  <2>6. EditsStay' /\ Served'
    BY <2>1, <2>2 DEF Intact, EditsStay, Served, People, Names
  <2>7. Room'
    BY <2>1, <2>2, RoomStays DEF Intact
  <2> QED BY <2>5, <2>6, <2>7 DEF Intact
<1>2. CASE Restart
  <2>1. UNCHANGED <<rows, ghosts>> /\ \A q \in Requests : req'[q] = Idle
    BY <1>2 DEF Restart
  <2> QED BY <2>1, QuietIntact, EndedFresh DEF AllFresh
<1> QED BY <1>1, <1>2

Safe == Typed /\ AllFresh /\ Intact

LEMMA InitSafe == Init => Safe
<1> SUFFICES ASSUME Init PROVE Safe
  OBVIOUS
<1>1. \A r \in Requests : Fresh(r)
  BY DEF Init, Idle, Fresh, At, RowsRead, AddressesRead, ListsRead, ClientsRead, NobodyUses,
         ChosenExist, Counted
<1>2. EditsStay
  <2>1. [servers |-> Servers, ips |-> NoIps, active |-> TRUE].ips = NoIps
    OBVIOUS
  <2> QED BY <2>1 DEF Init, EditsStay, People
<1>3. Served
  <2>1. [servers |-> Servers, ips |-> NoIps, active |-> TRUE].servers = Servers
    OBVIOUS
  <2>2. Names = Servers
    <3>1. New \in Row
      BY DEF New, Row, Address
    <3> QED BY <3>1, NoneAssumption DEF Init, Names
  <2> QED BY <2>1, <2>2 DEF Init, Served, People
<1>4. Room
  BY PeopleCounted, FS_Subset, FS_CardinalityType, LimitsAssumption DEF Init, Room
<1> QED BY <1>1, <1>2, <1>3, <1>4, InitTyped DEF Safe, AllFresh, Intact

LEMMA NextSafe == Safe /\ [Next]_vars => Safe'
<1> SUFFICES ASSUME Safe, [Next]_vars PROVE Safe'
  OBVIOUS
<1>1. Typed /\ AllFresh /\ Intact
  BY DEF Safe
<1>2. Typed'
  BY <1>1, NextTyped
<1>3. ASSUME NEW r \in Requests, Arrive(r) \/ Continue(r)
      PROVE  AllFresh' /\ Intact'
  <2>1. ASSUME ReadsQuietly(r)
        PROVE  Intact'
    BY <1>1, <2>1, QuietIntact DEF ReadsQuietly
  <2>2. CASE Arrive(r)
    BY <1>1, <2>1, <2>2, ArriveFresh
  <2>3. CASE List(r) \/ ListClients(r) \/ Get(r) \/ Using(r) \/ Choose(r)
    BY <1>1, <2>1, <2>3, ReadFresh
  <2>4. CASE Upsert(r)
    BY <1>1, <2>4, UpsertSafe
  <2>6. CASE Override(r)
    BY <1>1, <2>6, OverrideSafe
  <2>7. CASE Update(r)
    BY <1>1, <2>7, UpdateSafe
  <2>8. CASE Unlist(r)
    BY <1>1, <2>8, UnlistSafe
  <2>9. CASE Drop(r)
    BY <1>1, <2>9, DropSafe
  <2>10. CASE WriteAssigned(r)
    BY <1>1, <2>10, WriteAssignedSafe
  <2>11. CASE Insert(r)
    BY <1>1, <2>11, InsertSafe
  <2> QED BY <1>3, <2>2, <2>3, <2>4, <2>6, <2>7, <2>8, <2>9, <2>10, <2>11 DEF Continue
<1>4. CASE UNCHANGED vars
  <2>1. UNCHANGED <<rows, ghosts, server, client, gone, req, beside>>
    BY <1>4 DEF vars, rows, ghosts
  <2>2. \A q \in Requests : Noticed(q)
    BY <2>1 DEF Noticed, People
  <2>3. AllFresh'
    BY <1>1, <2>1, <2>2, NoticedFresh DEF AllFresh
  <2> QED BY <1>1, <1>2, <2>1, <2>3, QuietIntact DEF Safe
<1> QED BY <1>1, <1>2, <1>3, <1>4, PanelSafe DEF Next, Safe

\* What administrators edit stays as they meant it: only a request that others
\* have overtaken undoes an edit (the handlers of routes/admin.js that read
\* rows, await, and write them back).
THEOREM EditsAreKept == Spec => []EditsStay
<1>1. Safe => EditsStay
  BY DEF Safe, Intact
<1> QED BY <1>1, InitSafe, NextSafe, PTL DEF Spec

\* Clients name servers that are there, and keep to the limit of their dealer,
\* unless requests have overtaken each other (deletion, assignment and creation
\* in routes/admin.js).
THEOREM ClientsStayServed == Spec => []ClientsAreServed
<1>1. Safe => ClientsAreServed
  BY DEF Safe, Intact, Served, Room, ClientsAreServed
<1> QED BY <1>1, InitSafe, NextSafe, PTL DEF Spec

-----------------------------------------------------------------------------
(* Sequences of different elements *)

\* A sequence has the elements it has.
LEMMA Elements ==
    ASSUME NEW S, NEW s \in Seq(S)
    PROVE  /\ Files!ToSet(s) = {s[i] : i \in 1 .. Len(s)}
           /\ Files!IsInjective(s) <=> \A i, j \in 1 .. Len(s) : s[i] = s[j] => i = j
           /\ Files!ToSet(s) \subseteq S
           /\ s = <<>> <=> Files!ToSet(s) = {}
<1>1. Files!ToSet(s) = {s[i] : i \in 1 .. Len(s)}
  BY DEF Files!ToSet
<1>2. \A i \in 1 .. Len(s) : s[i] \in S
  OBVIOUS
<1>3. s # <<>> => s[1] \in Files!ToSet(s)
  BY <1>1
<1>4. s = <<>> => Files!ToSet(s) = {}
  BY <1>1
<1>5. Files!IsInjective(s) <=> \A i, j \in 1 .. Len(s) : s[i] = s[j] => i = j
  <2>1. DOMAIN s = 1 .. Len(s)
    OBVIOUS
  <2> QED BY <2>1 DEF Files!IsInjective
<1>6. Files!ToSet(s) \subseteq S
  BY <1>1, <1>2
<1> QED BY <1>1, <1>3, <1>4, <1>5, <1>6

\* The sequence without elements.
LEMMA EmptySequence == \A S : <<>> \in Seq(S) /\ Files!ToSet(<<>>) = {} /\ Files!IsInjective(<<>>)
BY DEF Files!ToSet, Files!IsInjective

\* Its first element, and the others.
LEMMA Tails ==
    ASSUME NEW S, NEW s \in Seq(S), s # <<>>
    PROVE  /\ Tail(s) \in Seq(S) /\ Head(s) \in S
           /\ Files!ToSet(s) = Files!ToSet(Tail(s)) \cup {Head(s)}
           /\ Files!IsInjective(s) => Files!IsInjective(Tail(s)) /\ Head(s) \notin Files!ToSet(Tail(s))
           /\ Len(s) = 1 <=> Tail(s) = <<>>
<1>0. Tail(s) \in Seq(S) /\ Head(s) \in S
  OBVIOUS
<1>1. PICK t \in Seq(S) : t = Tail(s)
  BY <1>0
<1>2. \A i \in 1 .. Len(s) : i = 1 \/ (i - 1 \in 1 .. Len(t) /\ s[i] = t[i - 1])
  BY <1>1
<1>3. \A i \in 1 .. Len(t) : i + 1 \in 1 .. Len(s) /\ t[i] = s[i + 1]
  BY <1>1
<1>4. Head(s) = s[1] /\ 1 \in 1 .. Len(s)
  OBVIOUS
<1>5. Files!ToSet(s) = {s[i] : i \in 1 .. Len(s)} /\ Files!ToSet(t) = {t[i] : i \in 1 .. Len(t)}
  BY Elements
<1>6. ASSUME NEW x \in Files!ToSet(s) PROVE x \in Files!ToSet(t) \cup {Head(s)}
  BY <1>2, <1>4, <1>5
<1>7. ASSUME NEW x \in Files!ToSet(t) PROVE x \in Files!ToSet(s)
  BY <1>3, <1>5
<1>8. ASSUME Files!IsInjective(s) PROVE Files!IsInjective(t) /\ Head(s) \notin Files!ToSet(t)
  <2>1. \A i, j \in 1 .. Len(s) : s[i] = s[j] => i = j
    BY <1>8, Elements
  <2>2. \A i, j \in 1 .. Len(t) : t[i] = t[j] => i = j
    <3> SUFFICES ASSUME NEW i \in 1 .. Len(t), NEW j \in 1 .. Len(t), t[i] = t[j] PROVE i = j
      OBVIOUS
    <3>1. i + 1 = j + 1
      BY <1>3, <2>1
    <3> QED BY <3>1
  <2>3. \A i \in 1 .. Len(t) : t[i] # Head(s)
    <3> SUFFICES ASSUME NEW i \in 1 .. Len(t), t[i] = Head(s) PROVE FALSE
      OBVIOUS
    <3>1. i + 1 = 1
      BY <1>3, <1>4, <2>1
    <3> QED BY <3>1
  <2> QED BY <1>5, <2>2, <2>3, Elements
<1>9. Len(s) = 1 <=> t = <<>>
  <2>1. Len(s) \in Nat /\ Len(t) = Len(s) - 1
    BY <1>1
  <2>2. t = <<>> <=> Len(t) = 0
    OBVIOUS
  <2> QED BY <2>1, <2>2
<1>10. Files!ToSet(s) = Files!ToSet(t) \cup {Head(s)}
  BY <1>4, <1>5, <1>6, <1>7
<1> QED BY <1>0, <1>1, <1>8, <1>9, <1>10

\* One more element.
LEMMA Appended ==
    ASSUME NEW S, NEW s \in Seq(S), NEW x \in S
    PROVE  /\ Append(s, x) \in Seq(S)
           /\ Files!ToSet(Append(s, x)) = Files!ToSet(s) \cup {x}
           /\ Files!IsInjective(s) /\ x \notin Files!ToSet(s) => Files!IsInjective(Append(s, x))
<1>0. Append(s, x) \in Seq(S)
  OBVIOUS
<1>1. PICK t \in Seq(S) : t = Append(s, x)
  BY <1>0
<1>2. Len(t) = Len(s) + 1 /\ t[Len(s) + 1] = x /\ \A i \in 1 .. Len(s) : t[i] = s[i]
  BY <1>1
<1>3. Files!ToSet(s) = {s[i] : i \in 1 .. Len(s)} /\ Files!ToSet(t) = {t[i] : i \in 1 .. Len(t)}
  BY Elements
<1>4. Files!ToSet(t) \subseteq Files!ToSet(s) \cup {x}
  BY <1>2, <1>3
<1>5. Files!ToSet(s) \cup {x} \subseteq Files!ToSet(t)
  BY <1>2, <1>3
<1>6. ASSUME Files!IsInjective(s), x \notin Files!ToSet(s) PROVE Files!IsInjective(t)
  <2>1. \A i, j \in 1 .. Len(s) : s[i] = s[j] => i = j
    BY <1>6, Elements
  <2>2. \A i \in 1 .. Len(s) : s[i] # x
    BY <1>3, <1>6
  <2>3. \A i, j \in 1 .. Len(t) : t[i] = t[j] => i = j
    BY <1>2, <2>1, <2>2
  <2> QED BY <2>3, Elements
<1> QED BY <1>1, <1>4, <1>5, <1>6

\* The same elements, last first.
LEMMA Reversed ==
    ASSUME NEW S, NEW s \in Seq(S)
    PROVE  /\ Files!Reverse(s) \in Seq(S)
           /\ Files!ToSet(Files!Reverse(s)) = Files!ToSet(s)
           /\ Files!IsInjective(s) => Files!IsInjective(Files!Reverse(s))
<1>1. PICK t : t = Files!Reverse(s)
  OBVIOUS
<1>2. t \in Seq(S) /\ Len(t) = Len(s) /\ \A i \in 1 .. Len(s) : t[i] = s[(Len(s) - i) + 1]
  BY <1>1 DEF Files!Reverse
<1>3. \A i \in 1 .. Len(s) : (Len(s) - i) + 1 \in 1 .. Len(s)
  OBVIOUS
<1>4. ASSUME NEW i \in 1 .. Len(s) PROVE s[i] = t[(Len(s) - i) + 1]
  <2>1. PICK k \in 1 .. Len(s) : k = (Len(s) - i) + 1
    BY <1>3
  <2>2. t[k] = s[(Len(s) - k) + 1] /\ (Len(s) - k) + 1 = i
    BY <1>2, <2>1
  <2> QED BY <2>1, <2>2
<1>5. Files!ToSet(s) = {s[i] : i \in 1 .. Len(s)} /\ Files!ToSet(t) = {t[i] : i \in 1 .. Len(t)}
  BY <1>2, Elements
<1>6. Files!ToSet(t) = Files!ToSet(s)
  BY <1>2, <1>3, <1>4, <1>5
<1>7. ASSUME Files!IsInjective(s) PROVE Files!IsInjective(t)
  <2>1. \A i, j \in 1 .. Len(s) : s[i] = s[j] => i = j
    BY <1>7, Elements
  <2>2. ASSUME NEW i \in 1 .. Len(s), NEW j \in 1 .. Len(s), t[i] = t[j] PROVE i = j
    <3>1. (Len(s) - i) + 1 = (Len(s) - j) + 1
      BY <1>2, <1>3, <2>1, <2>2
    <3> QED BY <3>1
  <2> QED BY <1>2, <2>2, Elements
<1> QED BY <1>1, <1>2, <1>6, <1>7

\* The paths an administrator may ask for.
LEMMA SelectionsDiffer ==
    \A s \in Files!Selections : s \in Seq(Paths) /\ s # <<>> /\ Files!IsInjective(s)
<1>1. Files!Cardinality(Paths) \in Nat
  <2>1. Cardinality(Paths) \in Nat
    BY FS_CardinalityType, ValuesAssumption
  <2> QED BY <2>1 DEF Files!Cardinality, Cardinality
<1> QED BY <1>1 DEF Files!Selections, Files!BoundedSeq, Files!SeqOf

-----------------------------------------------------------------------------
(* What requests and jobs hold *)

Different(s) == Files!IsInjective(s)
Members(s) == Files!ToSet(s)

\* A request goes through different paths, the ones it has moved and the ones
\* it has yet to move.
Orderly(t) ==
    /\ IF t.at = "idle" THEN t.job = None ELSE t.job \in Jobs
    /\ Different(t.todo)
    /\ t.at \in {"check", "move"} => Different(t.files) /\ t.files # <<>>
    /\ t.at = "check" => t.for = "restore" /\ t.done = <<>> /\ t.todo # <<>>
    /\ t.at = "move" => /\ Different(t.done)
                        /\ Members(t.files) = Members(t.done) \cup Members(t.todo)
                        /\ Members(t.done) \cap Members(t.todo) = {}
    /\ t.at = "undo" => t.todo # <<>>

\* What it has moved and not moved back, ...
Outstanding(t) ==
    {p \in Paths : \/ t.at = "move" /\ p \in Members(t.done)
                   \/ t.at = "undo" /\ p \in Members(t.todo)}

\* ... and where it has seen that no file is, and may yet put one.
MayLand(t) ==
    {p \in Paths : \/ t.at = "check" /\ p \in Members(t.files) \ Members(t.todo)
                   \/ t.at = "move" /\ t.for = "restore" /\ p \in Members(t.todo)
                   \/ t.for = "quarantine" /\ p \in Outstanding(t)}

Quarantines(t) == t.at # "idle" /\ t.for = "quarantine"

\* The directory of a new job is its request's alone, and holds what it moved.
Alone ==
    \A a \in Admins : Quarantines(task[a]) =>
        /\ manifest[task[a].job].state # "completed"
        /\ \A b \in Admins \ {a} : task[b].job # task[a].job
        /\ task[a].at = "move" => \A p \in Members(task[a].done) : store[task[a].job][p] # None

\* A file of a completed job is in its directory, or on the way of a request
\* that restores it.
Held ==
    \A j \in Jobs : manifest[j].state = "completed" /\ j \notin loose =>
        \A p \in Members(manifest[j].files) :
            store[j][p] # None \/ \E a \in Admins : task[a].job = j /\ p \in Outstanding(task[a])

Looked == \A a \in Admins : \A p \in MayLand(task[a]) : root[p] = None \/ p \in newer[a]

Manifests ==
    \A j \in Jobs : manifest[j].state = "completed" => Different(manifest[j].files) /\ manifest[j].files # <<>>

FilesInv ==
    /\ Files!TypeOK /\ \A a \in Admins : Orderly(task[a])
    /\ Manifests /\ Alone /\ Held /\ Looked
    /\ Files!NothingIsDeleted

\* A step of one request.  The others stay where they are, note what arrives,
\* and have jobs of their own or are at the same one.
LEMMA RequestSteps ==
    ASSUME FilesInv, Files!TypeOK', Files!NothingIsDeleted', NEW a \in Admins, NEW t,
           task' = [task EXCEPT ![a] = t], Orderly(t), Manifests',
           loose \subseteq loose',
           \A j \in Jobs : \/ manifest'[j] = manifest[j]
                           \/ manifest'[j].state # "completed"
                           \/ j = task[a].job /\ \A p \in Members(manifest'[j].files) : store'[j][p] # None,
           \A j \in Jobs : j # task[a].job => store'[j] = store[j],
           Quarantines(t) => /\ manifest'[t.job].state # "completed"
                             /\ \A b \in Admins \ {a} : task[b].job # t.job
                             /\ t.at = "move" => \A p \in Members(t.done) : store'[t.job][p] # None,
           \A b \in Admins \ {a} : Quarantines(task[b]) => task[b].job # t.job,
           \/ task[a].job \in loose'
           \/ task[a].job = None
           \/ manifest'[task[a].job].state # "completed"
           \/ \A p \in Paths : store[task[a].job][p] # None \/ p \in Outstanding(task[a]) =>
                  store'[task[a].job][p] # None \/ (t.job = task[a].job /\ p \in Outstanding(t)),
           \A b \in Admins \ {a} : task[b].at # "idle" =>
               /\ newer[b] \subseteq newer'[b]
               /\ \A p \in Paths : root'[p] \in {root[p], None} \/ p \in newer'[b],
           \A p \in MayLand(t) : root'[p] = None \/ p \in newer'[a]
    PROVE  FilesInv'
<1>1. task \in [Admins -> Files!Task] /\ task'[a] = t /\ \A b \in Admins \ {a} : task'[b] = task[b]
  BY DEF FilesInv, Files!TypeOK
<1>2. \A b \in Admins : Orderly(task'[b])
  BY <1>1 DEF FilesInv
<1>3. Alone'
  <2> SUFFICES ASSUME NEW b \in Admins, Quarantines(task'[b])
               PROVE  /\ manifest'[task'[b].job].state # "completed"
                      /\ \A c \in Admins \ {b} : task'[c].job # task'[b].job
                      /\ task'[b].at = "move" => \A p \in Members(task'[b].done) : store'[task'[b].job][p] # None
    BY DEF Alone
  <2>1. CASE b = a
    BY <1>1, <2>1
  <2>2. CASE b # a
    <3>1. task'[b] = task[b] /\ task[b].job \in Jobs /\ task[b].job # t.job /\ task[b].job # task[a].job
      BY <1>1, <2>2 DEF FilesInv, Alone, Orderly, Quarantines
    <3>2. store'[task[b].job] = store[task[b].job] /\ manifest'[task[b].job].state # "completed"
      BY <1>1, <2>2, <3>1 DEF FilesInv, Alone
    <3> QED BY <1>1, <2>2, <3>1, <3>2 DEF FilesInv, Alone
  <2> QED BY <2>1, <2>2
<1>4. Held'
  <2> SUFFICES ASSUME NEW j \in Jobs, manifest'[j].state = "completed", j \notin loose',
                      NEW p \in Members(manifest'[j].files)
               PROVE  store'[j][p] # None \/ \E b \in Admins : task'[b].job = j /\ p \in Outstanding(task'[b])
    BY DEF Held
  <2>0. CASE \A q \in Members(manifest'[j].files) : store'[j][q] # None
    BY <2>0
  <2> SUFFICES ASSUME manifest'[j] = manifest[j] PROVE store'[j][p] # None \/ \E b \in Admins : task'[b].job = j /\ p \in Outstanding(task'[b])
    BY <2>0
  <2>1. manifest'[j] = manifest[j] /\ j \notin loose /\ j # None
    BY ValuesAssumption
  <2>2. p \in Paths
    <3>1. manifest[j].files \in Seq(Paths)
      BY DEF FilesInv, Files!TypeOK
    <3> QED BY <2>1, <3>1, Elements DEF Members
  <2>3. CASE \E b \in Admins \ {a} : task[b].job = j /\ p \in Outstanding(task[b])
    BY <1>1, <2>3
  <2>4. CASE store[j][p] # None \/ (task[a].job = j /\ p \in Outstanding(task[a]))
    <3>1. CASE task[a].job = j
      BY <1>1, <2>1, <2>2, <2>4, <3>1
    <3>2. CASE task[a].job # j
      BY <2>4, <3>2
    <3> QED BY <3>1, <3>2
  <2> QED BY <2>1, <2>3, <2>4 DEF FilesInv, Held
<1>5. Looked'
  <2> SUFFICES ASSUME NEW b \in Admins, NEW p \in MayLand(task'[b]) PROVE root'[p] = None \/ p \in newer'[b]
    BY DEF Looked
  <2>1. CASE b = a
    BY <1>1, <2>1
  <2>2. CASE b # a
    <3>1. task'[b] = task[b]
      BY <1>1, <2>2
    <3>2. task[b].at # "idle" /\ p \in Paths
      BY <3>1 DEF MayLand, Outstanding
    <3>3. root[p] = None \/ p \in newer[b]
      BY <3>1 DEF FilesInv, Looked
    <3> QED BY <2>2, <3>2, <3>3
  <2> QED BY <2>1, <2>2
<1> QED BY <1>2, <1>3, <1>4, <1>5 DEF FilesInv

\* Requests and jobs have their types, and so has what becomes of them.
LEMMA FilesTypes ==
    ASSUME FilesInv, NEW a \in Admins
    PROVE  /\ task[a] \in Files!Task /\ Orderly(task[a])
           /\ task[a].files \in Seq(Paths) /\ task[a].todo \in Seq(Paths) /\ task[a].done \in Seq(Paths)
           /\ task[a].at # "idle" => task[a].job \in Jobs
           /\ task[a].at = "idle" => task[a].job = None
BY DEF FilesInv, Files!TypeOK, Files!Task, Orderly

\* A request that is not at work.
LEMMA IdleTask ==
    /\ Files!Idle \in Files!Task /\ Orderly(Files!Idle)
    /\ Files!Idle.at = "idle" /\ Files!Idle.job = None
    /\ Outstanding(Files!Idle) = {} /\ MayLand(Files!Idle) = {}
    /\ ~Quarantines(Files!Idle)
<1>1. Files!Idle \in Files!Task
  BY EmptySequence DEF Files!Idle, Files!Task, Files!Stages
<1>2. Orderly(Files!Idle)
  BY EmptySequence DEF Orderly, Files!Idle, Different
<1> QED BY <1>1, <1>2 DEF Files!Idle, Outstanding, MayLand, Quarantines

\* A step of one request that moves no file.
LEMMA QuietSteps ==
    ASSUME FilesInv, NEW a \in Admins, NEW t \in Files!Task,
           task' = [task EXCEPT ![a] = t], Orderly(t),
           UNCHANGED <<root, store, written, replaced>>,
           newer' \in [Admins -> SUBSET Paths], \A b \in Admins \ {a} : newer'[b] = newer[b],
           manifest' \in [Jobs -> [state : Files!Signed, files : Seq(Paths)]], Manifests',
           loose \subseteq loose', loose' \subseteq Jobs,
           \A j \in Jobs : \/ manifest'[j] = manifest[j]
                           \/ manifest'[j].state # "completed"
                           \/ j = task[a].job /\ \A p \in Members(manifest'[j].files) : store[j][p] # None,
           Quarantines(t) => /\ manifest'[t.job].state # "completed"
                             /\ \A b \in Admins \ {a} : task[b].job # t.job
                             /\ t.at = "move" => \A p \in Members(t.done) : store[t.job][p] # None,
           \A b \in Admins \ {a} : Quarantines(task[b]) => task[b].job # t.job,
           \/ task[a].job \in loose'
           \/ task[a].job = None
           \/ manifest'[task[a].job].state # "completed"
           \/ Outstanding(task[a]) \subseteq Outstanding(t) /\ (t.job = task[a].job \/ Outstanding(t) = {}),
           \A p \in MayLand(t) : root[p] = None \/ p \in newer'[a]
    PROVE  FilesInv'
<1>1. task' \in [Admins -> Files!Task]
  BY DEF FilesInv, Files!TypeOK
<1>2. Files!TypeOK'
  BY <1>1 DEF FilesInv, Files!TypeOK
<1>3. Files!NothingIsDeleted'
  BY DEF FilesInv, Files!NothingIsDeleted, Files!Kept
<1> QED BY <1>2, <1>3, RequestSteps

\* A request that gives up undoes what it has moved.
LEMMA GivesUp ==
    ASSUME FilesInv, NEW a \in Admins, task[a].at = "move", Files!GiveUp(a)
    PROVE  \E t \in Files!Task :
              /\ task' = [task EXCEPT ![a] = t]
              /\ Orderly(t) /\ t.at \in {"idle", "undo"}
              /\ t.at = "undo" => t.job = task[a].job /\ t.for = task[a].for
              /\ Outstanding(t) = Outstanding(task[a])
              /\ MayLand(t) \subseteq MayLand(task[a])
<1>1. PICK todo \in Seq(Paths) : todo = Files!Reverse(task[a].done)
  BY FilesTypes, Reversed
<1>2. Members(todo) = Members(task[a].done) /\ Different(todo) /\ (todo = <<>> <=> Members(todo) = {})
  BY <1>1, FilesTypes, Reversed, Elements DEF Orderly, Members, Different
<1>3. PICK t : t = IF todo = <<>> THEN Files!Idle ELSE [task[a] EXCEPT !.at = "undo", !.todo = todo]
  OBVIOUS
<1>4. task' = [task EXCEPT ![a] = t]
  BY <1>1, <1>3 DEF Files!GiveUp, Files!Undoing, Files!Set
<1>5. CASE todo = <<>>
  <2>1. Outstanding(task[a]) = {}
    BY <1>2, <1>5 DEF Outstanding
  <2> QED BY <1>3, <1>4, <1>5, <2>1, IdleTask
<1>6. CASE todo # <<>>
  <2>1. task[a] \in Files!Task /\ task[a].job \in Jobs
    BY FilesTypes
  <2>2. t \in Files!Task /\ t.at = "undo" /\ t.job = task[a].job /\ t.for = task[a].for /\ t.todo = todo
    BY <1>3, <1>6, <2>1 DEF Files!Task, Files!Stages
  <2>3. Orderly(t)
    BY <1>2, <1>6, <2>1, <2>2 DEF Orderly
  <2>4. Outstanding(t) = Outstanding(task[a])
    BY <1>2, <2>2 DEF Outstanding
  <2>5. MayLand(t) \subseteq MayLand(task[a])
    BY <2>2, <2>4 DEF MayLand
  <2> QED BY <1>4, <2>2, <2>3, <2>4, <2>5
<1> QED BY <1>5, <1>6

\* An undo goes on to the next file.
LEMMA UndoGoesOn ==
    ASSUME FilesInv, NEW a \in Admins, task[a].at = "undo", Files!Undoing(a, Tail(task[a].todo))
    PROVE  /\ Files!NextPath(a) \in Paths
           /\ \E t \in Files!Task :
              /\ task' = [task EXCEPT ![a] = t]
              /\ Orderly(t) /\ t.at \in {"idle", "undo"}
              /\ t.at = "undo" => t.job = task[a].job /\ t.for = task[a].for
              /\ Outstanding(t) = Outstanding(task[a]) \ {Files!NextPath(a)}
              /\ MayLand(t) \subseteq MayLand(task[a]) \ {Files!NextPath(a)}
<1>1. task[a].todo \in Seq(Paths) /\ task[a].todo # <<>> /\ Different(task[a].todo)
  BY FilesTypes DEF Orderly
<1>2. PICK todo \in Seq(Paths) : todo = Tail(task[a].todo)
  BY <1>1, Tails
<1>3. PICK p \in Paths : p = Files!NextPath(a)
  BY <1>1, Tails DEF Files!NextPath
<1>4. /\ Members(task[a].todo) = Members(todo) \cup {p} /\ p \notin Members(todo) /\ Different(todo)
      /\ todo = <<>> <=> Members(todo) = {}
  <2>1. p = Head(task[a].todo)
    BY <1>3 DEF Files!NextPath
  <2>2. todo = <<>> <=> Members(todo) = {}
    BY Elements DEF Members
  <2>3. Members(task[a].todo) = Members(todo) \cup {p} /\ p \notin Members(todo) /\ Different(todo)
    BY <1>1, <1>2, <2>1, Tails DEF Members, Different
  <2> QED BY <2>2, <2>3
<1>5. PICK t : t = IF todo = <<>> THEN Files!Idle ELSE [task[a] EXCEPT !.at = "undo", !.todo = todo]
  OBVIOUS
<1>6. task' = [task EXCEPT ![a] = t]
  BY <1>2, <1>5 DEF Files!Undoing, Files!Set
<1>7. CASE todo = <<>>
  <2>1. Outstanding(task[a]) \ {p} = {}
    BY <1>4, <1>7 DEF Outstanding
  <2> QED BY <1>3, <1>5, <1>6, <1>7, <2>1, IdleTask
<1>8. CASE todo # <<>>
  <2>1. task[a] \in Files!Task /\ task[a].job \in Jobs
    BY FilesTypes
  <2>2. t \in Files!Task /\ t.at = "undo" /\ t.job = task[a].job /\ t.for = task[a].for /\ t.todo = todo
    BY <1>5, <1>8, <2>1 DEF Files!Task, Files!Stages
  <2>3. Orderly(t)
    BY <1>4, <1>8, <2>1, <2>2 DEF Orderly
  <2>4. Outstanding(t) = Outstanding(task[a]) \ {p}
    BY <1>4, <2>2 DEF Outstanding
  <2>5. MayLand(t) \subseteq MayLand(task[a]) \ {p}
    BY <2>2, <2>4 DEF MayLand
  <2> QED BY <1>3, <1>6, <2>2, <2>3, <2>4, <2>5
<1> QED BY <1>7, <1>8

-----------------------------------------------------------------------------
(* Steps that move no file *)

\* A job that a request begins has a directory nobody else moves files in.
LEMMA QuarantineBegins ==
    ASSUME FilesInv, NEW a \in Admins, NEW paths \in Files!Selections, Files!Quarantine(a, paths)
    PROVE  FilesInv'
<1>1. PICK j : j = CHOOSE k \in Jobs : Files!Fresh(k)
  OBVIOUS
<1>2. j \in Jobs /\ Files!Fresh(j)
  BY <1>1 DEF Files!Quarantine
<1>3. PICK t : t = [at |-> "move", for |-> "quarantine", job |-> j, files |-> paths, todo |-> paths, done |-> <<>>]
  OBVIOUS
<1>4. paths \in Seq(Paths) /\ paths # <<>> /\ Different(paths)
  BY SelectionsDiffer DEF Different
<1>5. t \in Files!Task /\ t.at = "move" /\ t.job = j /\ t.done = <<>> /\ t.for = "quarantine"
  BY <1>2, <1>3, <1>4, EmptySequence DEF Files!Task, Files!Stages
<1>6. Orderly(t)
  BY <1>2, <1>3, <1>4, EmptySequence DEF Orderly, Members, Different
<1>7. Outstanding(t) = {} /\ MayLand(t) = {}
  BY <1>5, EmptySequence DEF Outstanding, MayLand, Members
<1>8. /\ task' = [task EXCEPT ![a] = t]
      /\ UNCHANGED <<root, store, manifest, written, replaced, loose>>
      /\ newer' = [newer EXCEPT ![a] = {}]
      /\ task[a].at = "idle"
  BY <1>1, <1>3 DEF Files!Quarantine, Files!Set, Files!disk, Files!history, Files!At
<1>9. task[a].job = None
  BY <1>8, FilesTypes
<1>10. \A b \in Admins : task[b].job # j
  BY <1>2 DEF Files!Fresh, Files!Job
<1>11. manifest[j].state # "completed"
  BY <1>2 DEF Files!Fresh, Files!Unsigned
<1>12. newer' \in [Admins -> SUBSET Paths] /\ \A b \in Admins \ {a} : newer'[b] = newer[b]
  BY <1>8 DEF FilesInv, Files!TypeOK
<1>13. \A p \in Members(t.done) : store[t.job][p] # None
  BY <1>5, EmptySequence DEF Members
<1>14. Manifests' /\ manifest' \in [Jobs -> [state : Files!Signed, files : Seq(Paths)]] /\ loose' \subseteq Jobs
  BY <1>8 DEF FilesInv, Manifests, Files!TypeOK
<1> QED BY <1>5, <1>6, <1>7, <1>8, <1>9, <1>10, <1>11, <1>12, <1>13, <1>14, QuietSteps

\* A restore begins with paths that it has all yet to look at.
LEMMA RestoreBegins ==
    ASSUME FilesInv, NEW a \in Admins, NEW j \in Jobs, Files!Restore(a, j)
    PROVE  FilesInv'
<1>1. PICK files : files = manifest[j].files
  OBVIOUS
<1>2. files \in Seq(Paths) /\ files # <<>> /\ Different(files) /\ manifest[j].state = "completed"
  BY <1>1 DEF FilesInv, Files!TypeOK, Manifests, Files!Restore
<1>3. PICK t : t = [at |-> "check", for |-> "restore", job |-> j, files |-> files, todo |-> files, done |-> <<>>]
  OBVIOUS
<1>4. t \in Files!Task /\ t.at = "check" /\ t.job = j /\ t.for = "restore" /\ t.files = t.todo
  BY <1>2, <1>3, EmptySequence DEF Files!Task, Files!Stages
<1>5. Orderly(t)
  BY <1>2, <1>3 DEF Orderly
<1>6. MayLand(t) = {} /\ ~Quarantines(t)
  BY <1>4 DEF MayLand, Quarantines
<1>7. /\ task' = [task EXCEPT ![a] = t]
      /\ UNCHANGED <<root, store, manifest, written, replaced, loose>>
      /\ newer' = [newer EXCEPT ![a] = {}]
      /\ task[a].at = "idle"
  BY <1>1, <1>3 DEF Files!Restore, Files!Set, Files!disk, Files!history, Files!At
<1>8. task[a].job = None
  BY <1>7, FilesTypes
<1>9. \A b \in Admins : Quarantines(task[b]) => task[b].job # t.job
  BY <1>2, <1>4 DEF FilesInv, Alone
<1>10. newer' \in [Admins -> SUBSET Paths] /\ \A b \in Admins \ {a} : newer'[b] = newer[b]
  BY <1>7 DEF FilesInv, Files!TypeOK
<1>11. Manifests' /\ manifest' \in [Jobs -> [state : Files!Signed, files : Seq(Paths)]] /\ loose' \subseteq Jobs
  BY <1>7 DEF FilesInv, Manifests, Files!TypeOK
<1> QED BY <1>4, <1>5, <1>6, <1>7, <1>8, <1>9, <1>10, <1>11, QuietSteps

\* A request goes on with the same job; `newer' and the disk stay.
LEMMA GoesOnQuietly ==
    ASSUME FilesInv, NEW a \in Admins, NEW t \in Files!Task, task[a].at # "idle",
           task' = [task EXCEPT ![a] = t], Orderly(t),
           UNCHANGED <<root, store, written, replaced, newer>>,
           manifest' \in [Jobs -> [state : Files!Signed, files : Seq(Paths)]],
           \A j \in Jobs : manifest'[j] = manifest[j] \/ manifest'[j].state # "completed",
           loose \subseteq loose', loose' \subseteq Jobs,
           t.at # "idle" => t.job = task[a].job /\ t.for = task[a].for,
           t.at = "move" => task[a].at = "check",
           \/ task[a].job \in loose'
           \/ manifest'[task[a].job].state # "completed"
           \/ Outstanding(task[a]) \subseteq Outstanding(t),
           \A p \in MayLand(t) \ MayLand(task[a]) : root[p] = None
    PROVE  FilesInv'
<1>1. task[a].job \in Jobs /\ (t.at = "idle" => t.job = None) /\ Orderly(task[a])
  BY FilesTypes DEF Orderly
<1>2. Manifests'
  BY DEF FilesInv, Manifests
<1>3. newer' \in [Admins -> SUBSET Paths] /\ \A b \in Admins \ {a} : newer'[b] = newer[b]
  BY DEF FilesInv, Files!TypeOK
<1>4. ASSUME Quarantines(t)
      PROVE  /\ manifest'[t.job].state # "completed"
             /\ \A b \in Admins \ {a} : task[b].job # t.job
             /\ t.at # "move"
  <2>1. Quarantines(task[a]) /\ t.job = task[a].job
    BY <1>4 DEF Quarantines
  <2>2. t.at # "move"
    BY <1>1, <2>1 DEF Orderly, Quarantines
  <2>3. manifest[t.job].state # "completed"
    BY <2>1 DEF FilesInv, Alone
  <2>4. manifest'[t.job].state # "completed"
    BY <1>1, <2>1, <2>3
  <2> QED BY <2>1, <2>2, <2>4 DEF FilesInv, Alone
<1>5. \A b \in Admins \ {a} : Quarantines(task[b]) => task[b].job # t.job
  <2> SUFFICES ASSUME NEW b \in Admins \ {a}, Quarantines(task[b]) PROVE task[b].job # t.job
    OBVIOUS
  <2>1. task[b].job \in Jobs /\ task[b].job # task[a].job
    BY FilesTypes DEF FilesInv, Alone, Quarantines
  <2> QED BY <1>1, <2>1, ValuesAssumption
<1>6. Outstanding(t) = {} \/ t.job = task[a].job
  BY DEF Outstanding
<1>7. \A p \in MayLand(t) : root[p] = None \/ p \in newer'[a]
  BY DEF FilesInv, Looked
<1> QED BY <1>2, <1>3, <1>4, <1>5, <1>6, <1>7, QuietSteps

\* A request that ends leaves no file of its job outside its directory, or
\* leaves the job loose.
LEMMA IdlesQuietly ==
    ASSUME FilesInv, NEW a \in Admins, task[a].at # "idle",
           task' = [task EXCEPT ![a] = Files!Idle],
           UNCHANGED <<root, store, written, replaced, newer>>,
           manifest' \in [Jobs -> [state : Files!Signed, files : Seq(Paths)]],
           \A j \in Jobs : manifest'[j] = manifest[j] \/ manifest'[j].state # "completed",
           loose \subseteq loose', loose' \subseteq Jobs,
           \/ task[a].job \in loose'
           \/ manifest'[task[a].job].state # "completed"
           \/ Outstanding(task[a]) = {}
    PROVE  FilesInv'
<1>1. PICK t : t = Files!Idle
  OBVIOUS
<1>2. t \in Files!Task /\ Orderly(t) /\ t.at = "idle" /\ MayLand(t) = {} /\ task' = [task EXCEPT ![a] = t]
  BY <1>1, IdleTask
<1> QED BY <1>2, GoesOnQuietly

\* A request that has looked at every path begins to move.
LEMMA CheckKeeps ==
    ASSUME FilesInv, NEW a \in Admins, Files!Check(a)
    PROVE  FilesInv'
<1>1. /\ task[a].at = "check" /\ task[a].for = "restore"
      /\ UNCHANGED <<root, store, manifest, written, replaced, newer, loose>>
  BY FilesTypes DEF Orderly, Files!Check, Files!At, Files!disk, Files!history
<1>2. /\ task[a] \in Files!Task /\ task[a].job \in Jobs /\ task[a].todo \in Seq(Paths) /\ task[a].files \in Seq(Paths)
      /\ task[a].todo # <<>> /\ Different(task[a].todo) /\ task[a].done = <<>>
      /\ Different(task[a].files) /\ task[a].files # <<>>
  BY <1>1, FilesTypes DEF Orderly
<1>3. PICK todo \in Seq(Paths) : todo = Tail(task[a].todo)
  BY <1>2, Tails
<1>4. PICK p \in Paths : p = Files!NextPath(a)
  BY <1>2, Tails DEF Files!NextPath
<1>5. /\ Members(task[a].todo) = Members(todo) \cup {p} /\ p \notin Members(todo) /\ Different(todo)
      /\ Len(task[a].todo) = 1 <=> todo = <<>>
      /\ todo = <<>> <=> Members(todo) = {}
  <2>1. p = Head(task[a].todo)
    BY <1>4 DEF Files!NextPath
  <2>2. todo = <<>> <=> Members(todo) = {}
    BY Elements DEF Members
  <2>3. Members(task[a].todo) = Members(todo) \cup {p} /\ p \notin Members(todo) /\ Different(todo)
    BY <1>2, <1>3, <2>1, Tails DEF Members, Different
  <2>4. Len(task[a].todo) = 1 <=> todo = <<>>
    BY <1>2, <1>3, Tails
  <2> QED BY <2>2, <2>3, <2>4
<1>6. manifest' \in [Jobs -> [state : Files!Signed, files : Seq(Paths)]] /\ loose' \subseteq Jobs
  BY <1>1 DEF FilesInv, Files!TypeOK
<1>7. Outstanding(task[a]) = {}
  BY <1>1 DEF Outstanding
<1>8. CASE root[p] # None
  <2>1. task' = [task EXCEPT ![a] = Files!Idle]
    BY <1>4, <1>8 DEF Files!Check, Files!Set
  <2> QED BY <1>1, <1>6, <1>7, <2>1, IdlesQuietly
<1>9. CASE root[p] = None /\ todo = <<>>
  <2>1. PICK t : t = [task[a] EXCEPT !.at = "move", !.todo = task[a].files]
    OBVIOUS
  <2>2. task' = [task EXCEPT ![a] = t]
    BY <1>4, <1>5, <1>9, <2>1 DEF Files!Check, Files!Set
  <2>3. /\ t \in Files!Task /\ t.at = "move" /\ t.todo = task[a].files /\ t.files = task[a].files
        /\ t.done = <<>> /\ t.job = task[a].job /\ t.for = "restore"
    BY <1>1, <1>2, <2>1 DEF Files!Task, Files!Stages
  <2>4. Orderly(t)
    BY <1>2, <2>3, EmptySequence DEF Orderly, Members, Different
  <2>5. ASSUME NEW q \in MayLand(t) \ MayLand(task[a]) PROVE root[q] = None
    <3>1. q \in Paths /\ q \in Members(task[a].files)
      BY <2>3 DEF MayLand
    <3>2. q \in Members(task[a].todo)
      BY <1>1, <2>5, <3>1 DEF MayLand
    <3> QED BY <1>5, <1>9, <3>2
  <2> QED BY <1>1, <1>6, <1>7, <2>2, <2>3, <2>4, <2>5, GoesOnQuietly
<1>10. CASE root[p] = None /\ todo # <<>>
  <2>1. PICK t : t = [task[a] EXCEPT !.todo = todo]
    OBVIOUS
  <2>2. task' = [task EXCEPT ![a] = t]
    BY <1>3, <1>4, <1>5, <1>10, <2>1 DEF Files!Check, Files!Set
  <2>3. /\ t \in Files!Task /\ t.at = "check" /\ t.todo = todo /\ t.files = task[a].files
        /\ t.done = <<>> /\ t.job = task[a].job /\ t.for = "restore"
    BY <1>1, <1>2, <2>1 DEF Files!Task
  <2>4. Orderly(t)
    BY <1>2, <1>5, <1>10, <2>3 DEF Orderly
  <2>5. ASSUME NEW q \in MayLand(t) \ MayLand(task[a]) PROVE root[q] = None
    <3>1. q \in Paths /\ q \in Members(task[a].files) \ Members(todo)
      BY <2>3 DEF MayLand
    <3>2. q \in Members(task[a].todo)
      BY <1>1, <2>5, <3>1 DEF MayLand
    <3> QED BY <1>5, <1>10, <3>1, <3>2
  <2> QED BY <1>1, <1>6, <1>7, <2>2, <2>3, <2>4, <2>5, GoesOnQuietly
<1> QED BY <1>8, <1>9, <1>10

\* What fails before the files are all moved.
LEMMA GivingUpKeeps ==
    ASSUME FilesInv, NEW a \in Admins, task[a].at = "move", Files!GiveUp(a),
           UNCHANGED <<root, store, written, replaced, newer, loose>>,
           manifest' \in [Jobs -> [state : Files!Signed, files : Seq(Paths)]],
           \A j \in Jobs : manifest'[j] = manifest[j] \/ manifest'[j].state # "completed"
    PROVE  FilesInv'
<1>1. PICK t \in Files!Task :
              /\ task' = [task EXCEPT ![a] = t]
              /\ Orderly(t) /\ t.at \in {"idle", "undo"}
              /\ t.at = "undo" => t.job = task[a].job /\ t.for = task[a].for
              /\ Outstanding(t) = Outstanding(task[a])
              /\ MayLand(t) \subseteq MayLand(task[a])
  BY GivesUp
<1>2. loose' \subseteq Jobs
  BY DEF FilesInv, Files!TypeOK
<1> QED BY <1>1, <1>2, GoesOnQuietly

\* What fails is given up or passed over.
LEMMA FailuresKeep ==
    ASSUME FilesInv, NEW a \in Admins,
           \/ Files!MoveFails(a) \/ Files!SignFails(a) \/ Files!UndoFails(a)
           \/ Files!MoveOne(a) /\ Files!Missing(a, Files!NextPath(a))
           \/ Files!Undo(a) /\ Files!MissingBack(a, Files!NextPath(a))
    PROVE  FilesInv'
<1>1. manifest \in [Jobs -> [state : Files!Signed, files : Seq(Paths)]] /\ loose \subseteq Jobs
  BY DEF FilesInv, Files!TypeOK
<1>2. CASE Files!MoveFails(a) \/ (Files!MoveOne(a) /\ Files!Missing(a, Files!NextPath(a)))
  BY <1>1, <1>2, GivingUpKeeps DEF Files!MoveFails, Files!MoveOne, Files!At, Files!disk
<1>3. CASE Files!SignFails(a)
  <2>1. /\ manifest' \in [Jobs -> [state : Files!Signed, files : Seq(Paths)]]
        /\ \A j \in Jobs : manifest'[j] = manifest[j] \/ manifest'[j].state # "completed"
    <3>1. PICK m : m = [state |-> "broken", files |-> <<>>]
      OBVIOUS
    <3>2. m \in [state : Files!Signed, files : Seq(Paths)] /\ m.state # "completed"
      BY <3>1, EmptySequence DEF Files!Signed
    <3>3. manifest' = manifest \/ manifest' = [manifest EXCEPT ![task[a].job] = m]
      BY <1>3, <3>1 DEF Files!SignFails, Files!Job
    <3> QED BY <1>1, <3>2, <3>3
  <2> QED BY <1>3, <2>1, GivingUpKeeps DEF Files!SignFails, Files!At
<1>4. CASE Files!UndoFails(a) \/ (Files!Undo(a) /\ Files!MissingBack(a, Files!NextPath(a)))
  <2>1. /\ task[a].at = "undo" /\ loose' = loose \cup {task[a].job}
        /\ UNCHANGED <<root, store, manifest, written, replaced, newer>>
        /\ task' = [task EXCEPT ![a] = Files!Idle] \/ Files!Undoing(a, Tail(task[a].todo))
    BY <1>4 DEF Files!UndoFails, Files!Undo, Files!At, Files!disk, Files!Set, Files!Job
  <2>2. task[a].job \in Jobs /\ loose' \subseteq Jobs
    BY <1>1, <2>1, FilesTypes
  <2>3. CASE task' = [task EXCEPT ![a] = Files!Idle]
    BY <1>1, <2>1, <2>2, <2>3, IdlesQuietly
  <2>4. CASE Files!Undoing(a, Tail(task[a].todo))
    <3>1. PICK t \in Files!Task :
              /\ task' = [task EXCEPT ![a] = t]
              /\ Orderly(t) /\ t.at \in {"idle", "undo"}
              /\ t.at = "undo" => t.job = task[a].job /\ t.for = task[a].for
              /\ MayLand(t) \subseteq MayLand(task[a]) \ {Files!NextPath(a)}
      BY <2>1, <2>4, UndoGoesOn
    <3> QED BY <1>1, <2>1, <2>2, <3>1, GoesOnQuietly
  <2> QED BY <2>1, <2>3, <2>4
<1> QED BY <1>2, <1>3, <1>4

\* A job is completed when its files are all in its directory; a restored job
\* is none any more.
LEMMA SignKeeps ==
    ASSUME FilesInv, NEW a \in Admins, Files!Sign(a)
    PROVE  FilesInv'
<1>1. /\ task[a].at = "move" /\ task[a].todo = <<>> /\ task[a].job \in Jobs
      /\ task[a] \in Files!Task /\ Orderly(task[a])
      /\ task' = [task EXCEPT ![a] = Files!Idle]
      /\ UNCHANGED <<root, store, written, replaced, newer, loose>>
  BY FilesTypes DEF Files!Sign, Files!At, Files!Set, Files!history
<1>2. PICK m : /\ m = [state |-> IF task[a].for = "quarantine" THEN "completed" ELSE "restored", files |-> task[a].files]
               /\ manifest' = [manifest EXCEPT ![task[a].job] = m]
  BY DEF Files!Sign, Files!Job
<1>3. m \in [state : Files!Signed, files : Seq(Paths)] /\ m.files = task[a].files
  BY <1>1, <1>2 DEF Files!Task, Files!Signed
<1>4. /\ manifest' \in [Jobs -> [state : Files!Signed, files : Seq(Paths)]]
      /\ manifest'[task[a].job] = m
      /\ \A j \in Jobs : j # task[a].job => manifest'[j] = manifest[j]
      /\ loose' \subseteq Jobs
  BY <1>1, <1>2, <1>3 DEF FilesInv, Files!TypeOK
<1>5. CASE task[a].for = "restore"
  <2>1. m.state # "completed"
    BY <1>2, <1>5
  <2> QED BY <1>1, <1>4, <2>1, IdlesQuietly
<1>6. CASE task[a].for = "quarantine"
  <2>1. Members(task[a].files) = Members(task[a].done) /\ Different(task[a].files) /\ task[a].files # <<>>
    BY <1>1, EmptySequence DEF Orderly, Members
  <2>2. \A p \in Members(task[a].done) : store[task[a].job][p] # None
    BY <1>1, <1>6 DEF FilesInv, Alone, Quarantines
  <2>3. \A p \in Members(manifest'[task[a].job].files) : store[task[a].job][p] # None
    BY <1>3, <1>4, <2>1, <2>2
  <2>4. Manifests'
    BY <1>1, <1>3, <1>4, <2>1 DEF FilesInv, Manifests
  <2>5. PICK t : t = Files!Idle
    OBVIOUS
  <2>6. /\ t \in Files!Task /\ Orderly(t) /\ ~Quarantines(t) /\ t.job = None /\ MayLand(t) = {}
        /\ task' = [task EXCEPT ![a] = t]
    BY <1>1, <2>5, IdleTask
  <2>7. newer' \in [Admins -> SUBSET Paths] /\ \A b \in Admins \ {a} : newer'[b] = newer[b]
    BY <1>1 DEF FilesInv, Files!TypeOK
  <2>8. \A b \in Admins \ {a} : Quarantines(task[b]) => task[b].job # t.job
    BY <2>6, FilesTypes, ValuesAssumption DEF Quarantines
  <2>9. Outstanding(task[a]) = Members(task[a].done)
    <3>1. Members(task[a].done) \subseteq Paths
      BY FilesTypes, Elements DEF Members
    <3> QED BY <1>1, <3>1 DEF Outstanding
  <2>10. Files!TypeOK' /\ Files!NothingIsDeleted'
    <3>1. task' \in [Admins -> Files!Task]
      BY <2>6 DEF FilesInv, Files!TypeOK
    <3> QED BY <1>1, <1>4, <3>1 DEF FilesInv, Files!TypeOK, Files!NothingIsDeleted, Files!Kept
  <2>11. \A p \in Paths : p \in Outstanding(task[a]) => store'[task[a].job][p] # None
    BY <1>1, <2>2, <2>9
  <2>12. \A j \in Jobs : \/ manifest'[j] = manifest[j]
                         \/ manifest'[j].state # "completed"
                         \/ j = task[a].job /\ \A p \in Members(manifest'[j].files) : store'[j][p] # None
    BY <1>1, <1>4, <2>3
  <2>13. \A p \in Paths : store[task[a].job][p] # None \/ p \in Outstanding(task[a]) =>
                  store'[task[a].job][p] # None \/ (t.job = task[a].job /\ p \in Outstanding(t))
    BY <1>1, <2>11
  <2>14. \A b \in Admins \ {a} : task[b].at # "idle" =>
               /\ newer[b] \subseteq newer'[b]
               /\ \A p \in Paths : root'[p] \in {root[p], None} \/ p \in newer'[b]
    BY <1>1, <2>7
  <2>15. \A p \in MayLand(t) : root'[p] = None \/ p \in newer'[a]
    BY <2>6
  <2>16. (\A j \in Jobs : j # task[a].job => store'[j] = store[j]) /\ loose \subseteq loose'
    BY <1>1
  <2> QED BY <2>4, <2>6, <2>8, <2>10, <2>12, <2>13, <2>14, <2>15, <2>16, RequestSteps
<1> QED BY <1>1, <1>5, <1>6 DEF Files!Task

-----------------------------------------------------------------------------
(* Steps that move a file *)

\* A file that goes to the directory of a job, or comes back.
LEMMA GoesToStore ==
    ASSUME FilesInv, NEW a \in Admins, task[a].job \in Jobs, NEW p \in Paths, Files!ToStore(a, p), written' = written
    PROVE  /\ root' \in [Paths -> Files!Files \cup {None}]
           /\ store' \in [Jobs -> [Paths -> Files!Files \cup {None}]]
           /\ replaced' \subseteq Files!Files /\ newer' = newer
           /\ root'[p] = None /\ \A q \in Paths : q # p => root'[q] = root[q]
           /\ store'[task[a].job][p] # None
           /\ \A q \in Paths : q # p => store'[task[a].job][q] = store[task[a].job][q]
           /\ \A j \in Jobs : j # task[a].job => store'[j] = store[j]
           /\ Files!NothingIsDeleted'
<1>1. PICK j \in Jobs : j = task[a].job
  OBVIOUS
<1>2. /\ root[p] # None /\ newer' = newer
      /\ store' = [store EXCEPT ![j][p] = root[p]]
      /\ root' = [root EXCEPT ![p] = None]
      /\ replaced' = replaced \cup ({store[j][p]} \ {None})
  BY <1>1 DEF Files!ToStore, Files!Job
<1>3. /\ root \in [Paths -> Files!Files \cup {None}] /\ store \in [Jobs -> [Paths -> Files!Files \cup {None}]]
      /\ replaced \subseteq Files!Files
  BY DEF FilesInv, Files!TypeOK
<1>4. /\ root' \in [Paths -> Files!Files \cup {None}] /\ store' \in [Jobs -> [Paths -> Files!Files \cup {None}]]
      /\ replaced' \subseteq Files!Files
      /\ root'[p] = None /\ \A q \in Paths : q # p => root'[q] = root[q]
      /\ store'[j][p] = root[p]
      /\ \A q \in Paths : q # p => store'[j][q] = store[j][q]
      /\ \A k \in Jobs : k # j => store'[k] = store[k]
  BY <1>2, <1>3
<1>5. Files!NothingIsDeleted'
  <2> SUFFICES ASSUME NEW f \in 1 .. written PROVE Files!Kept(f)' \/ f \in replaced'
    BY DEF Files!NothingIsDeleted
  <2>0. f # None
    BY ValuesAssumption
  <2>1. CASE f \in replaced
    BY <1>2, <2>1
  <2>2. ASSUME NEW q \in Paths, root[q] = f PROVE Files!Kept(f)'
    <3>1. CASE q = p
      BY <1>4, <2>2, <3>1 DEF Files!Kept
    <3>2. CASE q # p
      BY <1>4, <2>2, <3>2 DEF Files!Kept
    <3> QED BY <3>1, <3>2
  <2>3. ASSUME NEW k \in Jobs, NEW q \in Paths, store[k][q] = f PROVE Files!Kept(f)' \/ f \in replaced'
    <3>1. CASE k = j /\ q = p
      BY <1>2, <2>0, <2>3, <3>1
    <3>2. CASE k # j \/ q # p
      <4>1. store'[k][q] = f
        BY <1>4, <2>3, <3>2
      <4> QED BY <4>1 DEF Files!Kept
    <3> QED BY <3>1, <3>2
  <2> QED BY <2>1, <2>2, <2>3 DEF FilesInv, Files!NothingIsDeleted, Files!Kept
<1> QED BY <1>1, <1>2, <1>4, <1>5

\* A file moved to the repository is lost from no job but its own; the others
\* note where it arrives.
LEMMA GoesToRoot ==
    ASSUME FilesInv, NEW a \in Admins, task[a].job \in Jobs, NEW p \in Paths, Files!ToRoot(a, p), written' = written
    PROVE  /\ root' \in [Paths -> Files!Files \cup {None}]
           /\ store' \in [Jobs -> [Paths -> Files!Files \cup {None}]]
           /\ replaced' \subseteq Files!Files /\ newer' \in [Admins -> SUBSET Paths]
           /\ \A b \in Admins : newer[b] \subseteq newer'[b]
           /\ \A b \in Admins \ {a} : task[b].at # "idle" => p \in newer'[b]
           /\ \A q \in Paths : q # p => root'[q] = root[q]
           /\ \A q \in Paths : q # p => store'[task[a].job][q] = store[task[a].job][q]
           /\ \A j \in Jobs : j # task[a].job => store'[j] = store[j]
           /\ Files!NothingIsDeleted'
<1>1. PICK j \in Jobs : j = task[a].job
  OBVIOUS
<1>2. /\ store[j][p] # None
      /\ store' = [store EXCEPT ![j][p] = None]
      /\ root' = [root EXCEPT ![p] = store[j][p]]
      /\ replaced' = replaced \cup ({root[p]} \ {None})
      /\ newer' = [b \in Admins |-> IF b = a \/ task[b].at = "idle" THEN newer[b] ELSE newer[b] \cup {p}]
  BY <1>1 DEF Files!ToRoot, Files!Job, Files!Arrives, Files!At
<1>3. /\ root \in [Paths -> Files!Files \cup {None}] /\ store \in [Jobs -> [Paths -> Files!Files \cup {None}]]
      /\ replaced \subseteq Files!Files /\ newer \in [Admins -> SUBSET Paths]
  BY DEF FilesInv, Files!TypeOK
<1>4. /\ root' \in [Paths -> Files!Files \cup {None}] /\ store' \in [Jobs -> [Paths -> Files!Files \cup {None}]]
      /\ replaced' \subseteq Files!Files
      /\ root'[p] = store[j][p] /\ \A q \in Paths : q # p => root'[q] = root[q]
      /\ \A q \in Paths : q # p => store'[j][q] = store[j][q]
      /\ \A k \in Jobs : k # j => store'[k] = store[k]
  BY <1>2, <1>3
<1>5. /\ newer' \in [Admins -> SUBSET Paths]
      /\ \A b \in Admins : newer[b] \subseteq newer'[b]
      /\ \A b \in Admins \ {a} : task[b].at # "idle" => p \in newer'[b]
  BY <1>2, <1>3
<1>6. Files!NothingIsDeleted'
  <2> SUFFICES ASSUME NEW f \in 1 .. written PROVE Files!Kept(f)' \/ f \in replaced'
    BY DEF Files!NothingIsDeleted
  <2>0. f # None
    BY ValuesAssumption
  <2>1. CASE f \in replaced
    BY <1>2, <2>1
  <2>2. ASSUME NEW q \in Paths, root[q] = f PROVE Files!Kept(f)' \/ f \in replaced'
    <3>1. CASE q = p
      BY <1>2, <2>0, <2>2, <3>1
    <3>2. CASE q # p
      BY <1>4, <2>2, <3>2 DEF Files!Kept
    <3> QED BY <3>1, <3>2
  <2>3. ASSUME NEW k \in Jobs, NEW q \in Paths, store[k][q] = f PROVE Files!Kept(f)'
    <3>1. CASE k = j /\ q = p
      BY <1>4, <2>3, <3>1 DEF Files!Kept
    <3>2. CASE k # j \/ q # p
      <4>1. store'[k][q] = f
        BY <1>4, <2>3, <3>2
      <4> QED BY <4>1 DEF Files!Kept
    <3> QED BY <3>1, <3>2
  <2> QED BY <2>1, <2>2, <2>3 DEF FilesInv, Files!NothingIsDeleted, Files!Kept
<1> QED BY <1>1, <1>4, <1>5, <1>6

\* The file moved is no longer to be moved.
LEMMA MovesOn ==
    ASSUME FilesInv, NEW a \in Admins, Files!MoveOne(a), ~Files!Missing(a, Files!NextPath(a))
    PROVE  \E p \in Paths, t \in Files!Task :
              /\ p = Files!NextPath(a) /\ Files!Move(a, p)
              /\ task[a].at = "move" /\ p \in Members(task[a].todo)
              /\ task' = [task EXCEPT ![a] = t]
              /\ Orderly(t) /\ t.at = "move" /\ t.job = task[a].job /\ t.for = task[a].for
              /\ Outstanding(t) = Outstanding(task[a]) \cup {p}
              /\ t.for = "restore" => MayLand(t) = MayLand(task[a]) \ {p}
              /\ t.for = "quarantine" => MayLand(t) = MayLand(task[a]) \cup {p}
              /\ Members(t.done) = Members(task[a].done) \cup {p}
<1>1. /\ task[a].at = "move" /\ task[a] \in Files!Task /\ task[a].job \in Jobs /\ Orderly(task[a])
      /\ task[a].todo \in Seq(Paths) /\ task[a].todo # <<>> /\ task[a].done \in Seq(Paths)
  BY FilesTypes DEF Files!MoveOne, Files!At
<1>2. PICK todo \in Seq(Paths) : todo = Tail(task[a].todo)
  BY <1>1, Tails
<1>3. PICK p \in Paths : p = Files!NextPath(a)
  BY <1>1, Tails DEF Files!NextPath
<1>4. PICK done \in Seq(Paths) : done = Append(task[a].done, p)
  BY <1>1, Appended
<1>5. Members(task[a].todo) = Members(todo) \cup {p} /\ p \notin Members(todo) /\ Different(todo)
  <2>1. p = Head(task[a].todo)
    BY <1>3 DEF Files!NextPath
  <2> QED BY <1>1, <1>2, <2>1, Tails DEF Orderly, Members, Different
<1>6. Members(done) = Members(task[a].done) \cup {p} /\ Different(done)
  <2>1. p \notin Members(task[a].done) /\ Different(task[a].done)
    BY <1>1, <1>5 DEF Orderly
  <2> QED BY <1>1, <1>4, <2>1, Appended DEF Members, Different
<1>7. PICK t : t = [task[a] EXCEPT !.todo = todo, !.done = done]
  OBVIOUS
<1>8. /\ t \in Files!Task /\ t.at = "move" /\ t.job = task[a].job /\ t.for = task[a].for
      /\ t.files = task[a].files /\ t.todo = todo /\ t.done = done
  BY <1>1, <1>7 DEF Files!Task
<1>9. task' = [task EXCEPT ![a] = t] /\ Files!Move(a, p)
  BY <1>2, <1>3, <1>4, <1>7 DEF Files!MoveOne, Files!Set
<1>10. Orderly(t)
  BY <1>1, <1>5, <1>6, <1>8 DEF Orderly
<1>11. Outstanding(t) = Outstanding(task[a]) \cup {p}
  BY <1>1, <1>6, <1>8 DEF Outstanding
<1>12. /\ t.for = "restore" => MayLand(t) = MayLand(task[a]) \ {p}
       /\ t.for = "quarantine" => MayLand(t) = MayLand(task[a]) \cup {p}
  BY <1>1, <1>5, <1>8, <1>11 DEF MayLand
<1> QED BY <1>1, <1>3, <1>5, <1>6, <1>8, <1>9, <1>10, <1>11, <1>12

\* A step of one request that goes to the same job, or ends, and moves p.
LEMMA MovingSteps ==
    ASSUME FilesInv, NEW a \in Admins, task[a].at # "idle", NEW p \in Paths, NEW t \in Files!Task,
           task' = [task EXCEPT ![a] = t], Orderly(t),
           t.at # "idle" => t.job = task[a].job /\ t.for = task[a].for,
           UNCHANGED <<manifest, written, loose>>,
           root' \in [Paths -> Files!Files \cup {None}],
           store' \in [Jobs -> [Paths -> Files!Files \cup {None}]],
           replaced' \subseteq Files!Files, newer' \in [Admins -> SUBSET Paths],
           \A b \in Admins : newer[b] \subseteq newer'[b],
           \A b \in Admins \ {a} : task[b].at # "idle" => root'[p] = None \/ p \in newer'[b],
           \A q \in Paths : q # p => root'[q] = root[q],
           \A j \in Jobs : j # task[a].job => store'[j] = store[j],
           Files!NothingIsDeleted',
           Quarantines(t) /\ t.at = "move" => \A q \in Members(t.done) : store'[t.job][q] # None,
           task[a].for = "restore" =>
               \A q \in Paths : store[task[a].job][q] # None \/ q \in Outstanding(task[a]) =>
                  store'[task[a].job][q] # None \/ q \in Outstanding(t),
           \A q \in MayLand(t) : (q = p /\ root'[p] = None) \/ (q # p /\ q \in MayLand(task[a]))
    PROVE  FilesInv'
<1>1. task[a].job \in Jobs /\ (t.at = "idle" => t.job = None) /\ task[a].for \in {"quarantine", "restore"}
  BY FilesTypes DEF Orderly, Files!Task
<1>2. Files!TypeOK'
  <2>1. task' \in [Admins -> Files!Task]
    BY DEF FilesInv, Files!TypeOK
  <2> QED BY <2>1 DEF FilesInv, Files!TypeOK
<1>3. Manifests'
  BY DEF FilesInv, Manifests
<1>4. ASSUME Quarantines(t)
      PROVE  /\ manifest'[t.job].state # "completed"
             /\ \A b \in Admins \ {a} : task[b].job # t.job
             /\ t.at = "move" => \A q \in Members(t.done) : store'[t.job][q] # None
  <2>1. Quarantines(task[a]) /\ t.job = task[a].job
    BY <1>4 DEF Quarantines
  <2> QED BY <1>4, <2>1 DEF FilesInv, Alone
<1>5. \A b \in Admins \ {a} : Quarantines(task[b]) => task[b].job # t.job
  <2> SUFFICES ASSUME NEW b \in Admins \ {a}, Quarantines(task[b]) PROVE task[b].job # t.job
    OBVIOUS
  <2>1. task[b].job \in Jobs /\ task[b].job # task[a].job
    BY FilesTypes DEF FilesInv, Alone, Quarantines
  <2> QED BY <1>1, <2>1, ValuesAssumption
<1>6. \/ manifest'[task[a].job].state # "completed"
      \/ \A q \in Paths : store[task[a].job][q] # None \/ q \in Outstanding(task[a]) =>
             store'[task[a].job][q] # None \/ (t.job = task[a].job /\ q \in Outstanding(t))
  <2>1. CASE task[a].for = "quarantine"
    BY <2>1 DEF FilesInv, Alone, Quarantines
  <2>2. CASE task[a].for = "restore"
    <3>1. \A q \in Outstanding(t) : t.job = task[a].job
      BY DEF Outstanding
    <3> QED BY <2>2, <3>1
  <2> QED BY <1>1, <2>1, <2>2
<1>7. \A b \in Admins \ {a} : task[b].at # "idle" =>
               /\ newer[b] \subseteq newer'[b]
               /\ \A q \in Paths : root'[q] \in {root[q], None} \/ q \in newer'[b]
  OBVIOUS
<1>8. \A q \in MayLand(t) : root'[q] = None \/ q \in newer'[a]
  <2> SUFFICES ASSUME NEW q \in MayLand(t), q # p, q \in MayLand(task[a]) PROVE root'[q] = None \/ q \in newer'[a]
    OBVIOUS
  <2>1. q \in Paths /\ (root[q] = None \/ q \in newer[a])
    BY DEF FilesInv, Looked, MayLand
  <2> QED BY <2>1
<1> QED BY <1>2, <1>3, <1>4, <1>5, <1>6, <1>7, <1>8, RequestSteps

\* Either way, a file moved is one that its request can move back.
LEMMA MoveKeeps ==
    ASSUME FilesInv, NEW a \in Admins, Files!MoveOne(a), ~Files!Missing(a, Files!NextPath(a))
    PROVE  FilesInv'
<1>1. PICK p \in Paths, t \in Files!Task :
              /\ p = Files!NextPath(a) /\ Files!Move(a, p)
              /\ task[a].at = "move" /\ p \in Members(task[a].todo)
              /\ task' = [task EXCEPT ![a] = t]
              /\ Orderly(t) /\ t.at = "move" /\ t.job = task[a].job /\ t.for = task[a].for
              /\ Outstanding(t) = Outstanding(task[a]) \cup {p}
              /\ t.for = "restore" => MayLand(t) = MayLand(task[a]) \ {p}
              /\ t.for = "quarantine" => MayLand(t) = MayLand(task[a]) \cup {p}
              /\ Members(t.done) = Members(task[a].done) \cup {p}
  BY MovesOn
<1>2. /\ UNCHANGED <<manifest, written, loose>>
      /\ task[a].job \in Jobs /\ task[a].done \in Seq(Paths) /\ task[a].for \in {"quarantine", "restore"}
      /\ newer \in [Admins -> SUBSET Paths]
  BY <1>1, FilesTypes DEF FilesInv, Files!TypeOK, Files!Task, Files!MoveOne
<1>3. CASE task[a].for = "quarantine"
  <2>1. Files!ToStore(a, p)
    BY <1>1, <1>3 DEF Files!Move
  <2>2. \A q \in Members(t.done) : store'[t.job][q] # None
    <3>1. \A q \in Members(task[a].done) : q \in Paths /\ store[task[a].job][q] # None
      <4>1. Members(task[a].done) \subseteq Paths
        BY <1>2, Elements DEF Members
      <4> QED BY <1>1, <1>3, <4>1 DEF FilesInv, Alone, Quarantines
    <3> QED BY <1>1, <1>2, <2>1, <3>1, GoesToStore
  <2> QED BY <1>1, <1>2, <1>3, <2>1, <2>2, GoesToStore, MovingSteps
<1>4. CASE task[a].for = "restore"
  <2>1. Files!ToRoot(a, p)
    BY <1>1, <1>4 DEF Files!Move
  <2>2. \A q \in Paths : store[task[a].job][q] # None \/ q \in Outstanding(task[a]) =>
                  store'[task[a].job][q] # None \/ q \in Outstanding(t)
    BY <1>1, <1>2, <2>1, GoesToRoot
  <2> QED BY <1>1, <1>2, <1>4, <2>1, <2>2, GoesToRoot, MovingSteps DEF Quarantines
<1> QED BY <1>2, <1>3, <1>4

\* A file moved back is where its job had it.
LEMMA UndoKeeps ==
    ASSUME FilesInv, NEW a \in Admins, Files!Undo(a), ~Files!MissingBack(a, Files!NextPath(a))
    PROVE  FilesInv'
<1>1. /\ task[a].at = "undo" /\ task[a].job \in Jobs /\ task[a].for \in {"quarantine", "restore"}
      /\ UNCHANGED <<manifest, written, loose>>
      /\ Files!MoveBack(a, Files!NextPath(a)) /\ Files!Undoing(a, Tail(task[a].todo))
      /\ newer \in [Admins -> SUBSET Paths]
  BY FilesTypes DEF FilesInv, Files!TypeOK, Files!Task, Files!Undo, Files!At
<1>2. PICK p \in Paths : p = Files!NextPath(a)
  BY <1>1, UndoGoesOn
<1>3. PICK t \in Files!Task :
              /\ task' = [task EXCEPT ![a] = t]
              /\ Orderly(t) /\ t.at \in {"idle", "undo"}
              /\ t.at = "undo" => t.job = task[a].job /\ t.for = task[a].for
              /\ Outstanding(t) = Outstanding(task[a]) \ {p}
              /\ MayLand(t) \subseteq MayLand(task[a]) \ {p}
  BY <1>1, <1>2, UndoGoesOn
<1>4. CASE task[a].for = "quarantine"
  <2>1. Files!ToRoot(a, p)
    BY <1>1, <1>2, <1>4 DEF Files!MoveBack
  <2> QED BY <1>1, <1>3, <1>4, <2>1, GoesToRoot, MovingSteps
<1>5. CASE task[a].for = "restore"
  <2>1. Files!ToStore(a, p)
    BY <1>1, <1>2, <1>5 DEF Files!MoveBack
  <2>2. \A q \in Paths : store[task[a].job][q] # None \/ q \in Outstanding(task[a]) =>
                  store'[task[a].job][q] # None \/ q \in Outstanding(t)
    BY <1>1, <1>3, <2>1, GoesToStore
  <2>3. /\ root' \in [Paths -> Files!Files \cup {None}]
        /\ store' \in [Jobs -> [Paths -> Files!Files \cup {None}]]
        /\ replaced' \subseteq Files!Files /\ newer' = newer
        /\ root'[p] = None /\ \A q \in Paths : q # p => root'[q] = root[q]
        /\ \A j \in Jobs : j # task[a].job => store'[j] = store[j]
        /\ Files!NothingIsDeleted'
    BY <1>1, <2>1, GoesToStore
  <2>4. newer' \in [Admins -> SUBSET Paths] /\ \A b \in Admins : newer[b] \subseteq newer'[b]
    BY <1>1, <2>3
  <2>5. \A q \in MayLand(t) : q # p /\ q \in MayLand(task[a])
    BY <1>3
  <2>6. t.at # "move" /\ task[a].at # "idle" /\ (t.at # "idle" => t.job = task[a].job /\ t.for = task[a].for)
    BY <1>1, <1>3
  <2> QED BY <1>1, <1>3, <2>2, <2>3, <2>4, <2>5, <2>6, MovingSteps
<1> QED BY <1>1, <1>4, <1>5

-----------------------------------------------------------------------------
(* Crashes and other writers *)

\* A crash ends every request, and leaves loose the jobs they were at.
LEMMA CrashKeeps == FilesInv /\ Files!Crash => FilesInv'
<1> SUFFICES ASSUME FilesInv, Files!Crash PROVE FilesInv'
  OBVIOUS
<1>1. /\ \A a \in Admins : task'[a] = Files!Idle
      /\ task' \in [Admins -> Files!Task]
      /\ loose' = loose \cup ({task[a].job : a \in Admins} \ {None})
      /\ UNCHANGED <<root, store, newer, written, replaced>>
  BY IdleTask DEF Files!Crash, Files!Job
<1>2. PICK m : m = [state |-> "broken", files |-> <<>>]
  OBVIOUS
<1>3. PICK torn : manifest' = [j \in Jobs |-> IF j \in torn THEN m ELSE manifest[j]]
  BY <1>2 DEF Files!Crash
<1>4. m \in [state : Files!Signed, files : Seq(Paths)] /\ m.state # "completed"
  BY <1>2, EmptySequence DEF Files!Signed
<1>5. manifest' \in [Jobs -> [state : Files!Signed, files : Seq(Paths)]]
  BY <1>3, <1>4 DEF FilesInv, Files!TypeOK
<1>6. \A j \in Jobs : manifest'[j].state = "completed" => manifest'[j] = manifest[j]
  BY <1>3, <1>4
<1>7. loose' \subseteq Jobs
  BY <1>1, FilesTypes DEF FilesInv, Files!TypeOK
<1>8. Files!TypeOK'
  BY <1>1, <1>5, <1>7 DEF FilesInv, Files!TypeOK
<1>9. (\A a \in Admins : Orderly(task'[a])) /\ Alone' /\ Looked'
  BY <1>1, IdleTask DEF Alone, Looked
<1>10. Manifests'
  BY <1>6 DEF FilesInv, Manifests
<1>11. Held'
  <2> SUFFICES ASSUME NEW j \in Jobs, manifest'[j].state = "completed", j \notin loose',
                      NEW p \in Members(manifest'[j].files)
               PROVE  store[j][p] # None
    BY <1>1 DEF Held
  <2>1. j # None /\ j \notin loose /\ \A a \in Admins : task[a].job # j
    BY <1>1, ValuesAssumption
  <2> QED BY <1>6, <2>1 DEF FilesInv, Held
<1>12. Files!NothingIsDeleted'
  BY <1>1 DEF FilesInv, Files!NothingIsDeleted, Files!Kept
<1> QED BY <1>8, <1>9, <1>10, <1>11, <1>12 DEF FilesInv

\* A file left by a script is one that every request notes.
LEMMA LeaveKeeps ==
    ASSUME FilesInv, NEW p \in Paths, Files!Leave(p)
    PROVE  FilesInv'
<1>1. /\ root[p] = None /\ written < MaxFiles /\ written' = written + 1
      /\ root' = [root EXCEPT ![p] = written + 1]
      /\ newer' = [b \in Admins |-> IF b = None \/ task[b].at = "idle" THEN newer[b] ELSE newer[b] \cup {p}]
      /\ UNCHANGED <<store, manifest, task, replaced, loose>>
  BY DEF Files!Leave, Files!Arrives, Files!At
<1>2. /\ root \in [Paths -> Files!Files \cup {None}] /\ newer \in [Admins -> SUBSET Paths]
      /\ written \in 0 .. MaxFiles
  BY DEF FilesInv, Files!TypeOK
<1>3. written' \in 0 .. MaxFiles /\ written + 1 \in Files!Files
  BY <1>1, <1>2, ValuesAssumption DEF Files!Files
<1>4. /\ root' \in [Paths -> Files!Files \cup {None}] /\ newer' \in [Admins -> SUBSET Paths]
      /\ root'[p] = written + 1 /\ \A q \in Paths : q # p => root'[q] = root[q]
  BY <1>1, <1>2, <1>3
<1>5. Files!TypeOK'
  BY <1>1, <1>3, <1>4 DEF FilesInv, Files!TypeOK
<1>6. Looked'
  <2> SUFFICES ASSUME NEW a \in Admins, NEW q \in MayLand(task[a]) PROVE root'[q] = None \/ q \in newer'[a]
    BY <1>1 DEF Looked
  <2>1. task[a].at # "idle" /\ q \in Paths
    BY DEF MayLand, Outstanding
  <2>2. q = p /\ a # None => q \in newer'[a]
    BY <1>1, <2>1
  <2>3. newer[a] \subseteq newer'[a]
    BY <1>1
  <2> QED BY <1>4, <2>1, <2>2, <2>3, ValuesAssumption DEF FilesInv, Looked
<1>7. Files!NothingIsDeleted'
  <2> SUFFICES ASSUME NEW f \in 1 .. written + 1 PROVE Files!Kept(f)' \/ f \in replaced
    BY <1>1 DEF Files!NothingIsDeleted
  <2>1. CASE f = written + 1
    BY <1>4, <2>1 DEF Files!Kept
  <2>2. CASE f # written + 1
    <3>1. f \in 1 .. written /\ f # None
      BY <1>2, <2>2, ValuesAssumption
    <3>2. Files!Kept(f) \/ f \in replaced
      BY <3>1 DEF FilesInv, Files!NothingIsDeleted
    <3>3. ASSUME NEW q \in Paths, root[q] = f PROVE root'[q] = f
      BY <1>1, <1>4, <3>1, <3>3
    <3> QED BY <1>1, <3>2, <3>3 DEF Files!Kept
  <2> QED BY <2>1, <2>2
<1> QED BY <1>1, <1>5, <1>6, <1>7 DEF FilesInv, Manifests, Alone, Held

-----------------------------------------------------------------------------
(* The theorems *)

\* Every file there is at the start is one of those written.
LEMMA InitFiles == Files!Init => FilesInv
<1> SUFFICES ASSUME Files!Init PROVE FilesInv
  OBVIOUS
<1>1. /\ root \in [Paths -> {None} \cup 1 .. MaxFiles]
      /\ {root[p] : p \in Paths} \ {None} = 1 .. written
      /\ store = [j \in Jobs |-> Files!NoFiles]
      /\ manifest = [j \in Jobs |-> Files!Unsigned]
      /\ task = [a \in Admins |-> Files!Idle]
      /\ replaced = {} /\ newer = [a \in Admins |-> {}] /\ loose = {}
  BY DEF Files!Init
<1>2. written \in 0 .. MaxFiles
  <2>1. written \in Nat
    <3>1. PICK S : S = {p \in Paths : root[p] # None}
      OBVIOUS
    <3>2. Cardinality(S) \in Nat
      BY <3>1, ValuesAssumption, FS_Subset, FS_CardinalityType
    <3>3. written = Files!Cardinality(S)
      BY <3>1 DEF Files!Init
    <3> QED BY <3>2, <3>3 DEF Files!Cardinality, Cardinality
  <2>2. 1 .. written \subseteq 1 .. MaxFiles
    BY <1>1
  <2> QED BY <2>1, <2>2, ValuesAssumption
<1>3. Files!TypeOK
  <2>1. Files!NoFiles \in [Paths -> Files!Files \cup {None}]
    BY DEF Files!NoFiles
  <2>2. Files!Unsigned \in [state : Files!Signed, files : Seq(Paths)]
    BY EmptySequence DEF Files!Unsigned, Files!Signed
  <2> QED BY <1>1, <1>2, <2>1, <2>2, IdleTask DEF Files!TypeOK, Files!Files
<1>4. \A a \in Admins : task[a] = Files!Idle
  BY <1>1
<1>5. \A j \in Jobs : manifest[j].state # "completed"
  BY <1>1 DEF Files!Unsigned
<1>6. Files!NothingIsDeleted
  <2>1. \A f \in 1 .. written : \E p \in Paths : root[p] = f
    BY <1>1
  <2> QED BY <2>1 DEF Files!NothingIsDeleted, Files!Kept
<1>7. (\A a \in Admins : Orderly(task[a])) /\ Alone /\ Looked
  BY <1>4, IdleTask DEF Alone, Looked
<1>8. Manifests /\ Held
  BY <1>5 DEF Manifests, Held
<1> QED BY <1>3, <1>6, <1>7, <1>8 DEF FilesInv

\* Every step keeps what holds between them.
LEMMA FilesSteps == FilesInv /\ [Files!Next]_Files!vars => FilesInv'
<1> SUFFICES ASSUME FilesInv, [Files!Next]_Files!vars PROVE FilesInv'
  OBVIOUS
<1>1. ASSUME NEW a \in Admins, Files!Continue(a) PROVE FilesInv'
  <2>1. CASE Files!MoveOne(a)
    BY <2>1, MoveKeeps, FailuresKeep
  <2>2. CASE Files!Undo(a)
    BY <2>2, UndoKeeps, FailuresKeep
  <2> QED BY <1>1, <2>1, <2>2, CheckKeeps, SignKeeps, FailuresKeep DEF Files!Continue
<1>2. CASE UNCHANGED Files!vars
  BY <1>2 DEF Files!vars, Files!disk, Files!history, FilesInv, Files!TypeOK, Manifests, Alone, Held, Looked,
              Files!NothingIsDeleted, Files!Kept
<1> QED BY <1>1, <1>2, QuarantineBegins, RestoreBegins, CrashKeeps, LeaveKeeps DEF Files!Next

\* Whatever fails, what requests and jobs hold fits together.
THEOREM FilesInvHolds == Files!Spec => []FilesInv
BY InitFiles, FilesSteps, PTL DEF Files!Spec

\* No file is lost, and a completed job at which no request is at work holds
\* its files.
THEOREM FilesStay == Files!Spec => []FilesAreKept
<1>1. FilesInv => FilesAreKept
  <2> SUFFICES ASSUME FilesInv PROVE Files!NothingIsDeleted /\ Files!ListedJobsHoldTheirFiles
    BY DEF FilesAreKept
  <2>1. \A j \in Jobs :
           manifest[j].state = "completed" /\ j \notin loose /\ (\A a \in Admins : task[a].job # j) =>
               \A p \in Files!ToSet(manifest[j].files) : store[j][p] # None
    BY DEF FilesInv, Held, Members
  <2> QED BY <2>1 DEF FilesInv, Files!ListedJobsHoldTheirFiles, Files!Job
<1> QED BY <1>1, FilesInvHolds, PTL

\* Only a move to the repository replaces a file there, at a path where its
\* request has seen none.
LEMMA RenamesAreChecked ==
    ASSUME FilesInv, NEW p \in Paths, Files!Next, root[p] # None, root'[p] \notin {None, root[p]}
    PROVE  \E a \in Admins : ~Files!At(a, "idle") /\ p \in newer[a]
<1>1. ASSUME NEW a \in Admins, NEW q \in Paths, task[a].job \in Jobs, written' = written,
             Files!ToRoot(a, q), task[a].at # "idle", q \in MayLand(task[a])
      PROVE  ~Files!At(a, "idle") /\ p \in newer[a]
  <2>1. q = p
    BY <1>1, GoesToRoot
  <2> QED BY <1>1, <2>1 DEF FilesInv, Looked, Files!At
<1>2. ASSUME NEW a \in Admins, NEW q \in Paths, task[a].job \in Jobs, written' = written,
             Files!ToStore(a, q)
      PROVE  FALSE
  BY <1>2, GoesToStore
<1>3. ASSUME NEW a \in Admins, Files!MoveOne(a) PROVE ~Files!At(a, "idle") /\ p \in newer[a]
  <2>1. ~Files!Missing(a, Files!NextPath(a))
    BY <1>3 DEF Files!MoveOne
  <2>2. PICK q \in Paths :
              /\ Files!Move(a, q) /\ task[a].at = "move" /\ q \in Members(task[a].todo)
    BY <1>3, <2>1, MovesOn
  <2>3. task[a].job \in Jobs /\ task[a].for \in {"quarantine", "restore"} /\ written' = written
    BY <1>3, <2>2, FilesTypes DEF Files!Task, Files!MoveOne
  <2>4. CASE task[a].for = "quarantine"
    BY <1>2, <2>2, <2>3, <2>4 DEF Files!Move
  <2>5. CASE task[a].for = "restore"
    <3>1. q \in MayLand(task[a])
      BY <2>2, <2>5 DEF MayLand
    <3>2. Files!ToRoot(a, q)
      BY <2>2, <2>5 DEF Files!Move
    <3> QED BY <1>1, <2>2, <2>3, <3>1, <3>2
  <2> QED BY <2>3, <2>4, <2>5
<1>4. ASSUME NEW a \in Admins, Files!Undo(a) PROVE ~Files!At(a, "idle") /\ p \in newer[a]
  <2>1. /\ task[a].at = "undo" /\ task[a].job \in Jobs /\ task[a].for \in {"quarantine", "restore"}
        /\ written' = written /\ Files!Undoing(a, Tail(task[a].todo))
        /\ task[a].todo \in Seq(Paths) /\ task[a].todo # <<>>
    BY <1>4, FilesTypes DEF Files!Task, Files!Undo, Files!At, Orderly
  <2>2. PICK q \in Paths : q = Files!NextPath(a)
    BY <2>1, UndoGoesOn
  <2>3. Files!MoveBack(a, q)
    BY <1>4, <2>2 DEF Files!Undo
  <2>4. q \in Outstanding(task[a])
    BY <2>1, <2>2, Tails DEF Outstanding, Members, Files!NextPath
  <2>5. CASE task[a].for = "quarantine"
    <3>1. q \in MayLand(task[a])
      BY <2>4, <2>5 DEF MayLand
    <3>2. Files!ToRoot(a, q)
      BY <2>3, <2>5 DEF Files!MoveBack
    <3> QED BY <1>1, <2>1, <3>1, <3>2
  <2>6. CASE task[a].for = "restore"
    BY <1>2, <2>1, <2>3, <2>6 DEF Files!MoveBack
  <2> QED BY <2>1, <2>5, <2>6
<1>5. ASSUME NEW q \in Paths, Files!Leave(q) PROVE FALSE
  BY <1>5 DEF Files!Leave, FilesInv, Files!TypeOK
<1>6. PICK a \in Admins : Files!MoveOne(a) \/ Files!Undo(a)
  BY <1>5 DEF Files!Next, Files!Continue, Files!Quarantine, Files!Restore, Files!Check, Files!Sign, Files!MoveFails,
              Files!SignFails, Files!UndoFails, Files!Crash, Files!disk
<1> QED BY <1>3, <1>4, <1>6

\* A rename replaces no file that was there when its request looked, also
\* when it undoes a quarantine.
THEOREM RenamesReplaceNewFiles == Files!Spec => ReplacesOnlyNewFiles
<1>1. FilesInv /\ [Files!Next]_Files!vars =>
          [\A p \in Paths : root[p] # None /\ root'[p] \notin {None, root[p]} =>
              \E a \in Admins : ~Files!At(a, "idle") /\ p \in newer[a]]_Files!vars
  BY RenamesAreChecked
<1> QED BY <1>1, FilesInvHolds, PTL DEF Files!Spec, ReplacesOnlyNewFiles, Files!ReplacesOnlyNewFiles

-----------------------------------------------------------------------------
(* The updates of the chat bot *)

\* The first n updates have been begun.
Begun(b, n) == \A u \in 1 .. n : u \in DOMAIN b /\ b[u] > 0

\* Updates are handed out in a row and each once: those before the offset,
\* those Telegram has dropped and those before the batch have been begun; of
\* the others none since the last restart.
UpdatesType ==
    /\ sent \in Seq([chat : Chats, kind : Telegram!Kinds])
    /\ begins \in Seq(Nat) /\ Len(begins) = Len(sent)
    /\ confirmed \in Nat /\ offset \in Nat /\ restarts \in Nat /\ batch \in Seq(Nat)

InARow == \A n \in 1 .. Len(batch) : batch[n] = batch[1] + n - 1 /\ batch[n] \in 1 .. Len(sent)

AllBegun ==
    /\ Begun(begins, confirmed) /\ Begun(begins, offset - 1)
    /\ batch # <<>> => batch[1] >= offset /\ Begun(begins, batch[1] - 1)

BegunOnce == \A u \in 1 .. Len(begins) : begins[u] <= restarts \/ (begins[u] = restarts + 1 /\ u < offset)

UpdatesInv == UpdatesType /\ InARow /\ AllBegun /\ BegunOnce

\* Neither what goes on with a chat nor the end of a batch touches them.
LEMMA BatchStays ==
    ASSUME UpdatesInv, UNCHANGED <<sent, confirmed, offset, begins, restarts>>, batch' \in {batch, <<>>}
    PROVE  UpdatesInv'
<1>1. <<>> \in Seq(Nat) /\ Len(<<>>) = 0
  OBVIOUS
<1>2. CASE batch' = batch
  BY <1>2 DEF UpdatesInv, UpdatesType, InARow, AllBegun, BegunOnce
<1>3. CASE batch' = <<>>
  BY <1>1, <1>3 DEF UpdatesInv, UpdatesType, InARow, AllBegun, BegunOnce
<1> QED BY <1>2, <1>3

\* Another update comes after the others.
LEMMA SendKeepsUpdates ==
    ASSUME UpdatesInv, NEW c \in Chats, NEW kind \in Telegram!Kinds, Telegram!Send(c, kind)
    PROVE  UpdatesInv'
<1>1. PICK update \in [chat : Chats, kind : Telegram!Kinds] : sent' = Append(sent, update)
  BY DEF Telegram!Send
<1>2. /\ begins' = Append(begins, 0)
      /\ UNCHANGED <<confirmed, offset, batch, restarts>>
  BY DEF Telegram!Send, Telegram!agents
<1>3. /\ sent' \in Seq([chat : Chats, kind : Telegram!Kinds]) /\ Len(sent') = Len(sent) + 1
      /\ begins' \in Seq(Nat) /\ Len(begins') = Len(begins) + 1
      /\ begins'[Len(begins) + 1] = 0 /\ \A u \in 1 .. Len(begins) : begins'[u] = begins[u]
      /\ Len(begins) \in Nat /\ Len(sent) \in Nat /\ Len(begins) = Len(sent) /\ Len(batch) \in Nat
  BY <1>1, <1>2 DEF UpdatesInv, UpdatesType
<1>4. DOMAIN begins = 1 .. Len(begins) /\ DOMAIN begins' = 1 .. Len(begins) + 1
  BY <1>3 DEF UpdatesInv, UpdatesType
<1>5. \A n : Begun(begins, n) => Begun(begins', n)
  <2> SUFFICES ASSUME NEW n, Begun(begins, n), NEW v \in 1 .. n PROVE v \in DOMAIN begins' /\ begins'[v] > 0
    BY DEF Begun
  <2>1. v \in 1 .. Len(begins) /\ begins[v] > 0
    BY <1>4 DEF Begun
  <2> QED BY <1>3, <1>4, <2>1
<1>6. InARow'
  BY <1>2, <1>3 DEF UpdatesInv, InARow
<1>7. BegunOnce'
  <2> SUFFICES ASSUME NEW u \in 1 .. Len(begins')
               PROVE  begins'[u] <= restarts \/ (begins'[u] = restarts + 1 /\ u < offset)
    BY <1>2 DEF BegunOnce
  <2>1. CASE u = Len(begins) + 1
    BY <1>3, <2>1 DEF UpdatesInv, UpdatesType
  <2>2. CASE u # Len(begins) + 1
    <3>1. u \in 1 .. Len(begins)
      BY <1>3, <2>2
    <3> QED BY <1>3, <3>1 DEF UpdatesInv, BegunOnce
  <2> QED BY <2>1, <2>2
<1>8. AllBegun'
  BY <1>2, <1>5 DEF UpdatesInv, AllBegun
<1> QED BY <1>2, <1>3, <1>6, <1>7, <1>8 DEF UpdatesInv, UpdatesType

\* Telegram drops what is before the offset.
LEMMA FetchKeepsUpdates == UpdatesInv /\ Telegram!Fetch => UpdatesInv'
<1> SUFFICES ASSUME UpdatesInv, Telegram!Fetch PROVE UpdatesInv'
  OBVIOUS
<1>1. PICK from : from = Telegram!From
  OBVIOUS
<1>2. confirmed \in Nat /\ offset \in Nat /\ sent \in Seq([chat : Chats, kind : Telegram!Kinds])
  BY DEF UpdatesInv, UpdatesType
<1>3. from \in Nat /\ from > 0 /\ from >= offset /\ from - 1 \in Nat
  BY <1>1, <1>2 DEF Telegram!From
<1>4. Begun(begins, from - 1)
  <2>1. (confirmed + 1) - 1 = confirmed
    BY <1>2
  <2> QED BY <1>1, <2>1 DEF Telegram!From, UpdatesInv, AllBegun
<1>5. PICK upto \in from - 1 .. Len(sent) : batch' = [n \in 1 .. upto - from + 1 |-> from + n - 1]
  BY <1>1 DEF Telegram!Fetch
<1>6. confirmed' = from - 1 /\ UNCHANGED <<sent, offset, begins, restarts>>
  BY <1>1 DEF Telegram!Fetch, Telegram!agents
<1>7. Len(sent) \in Nat /\ upto - from + 1 \in Nat
  BY <1>2, <1>3, <1>5
<1>8. batch' \in Seq(Nat) /\ Len(batch') = upto - from + 1
  BY <1>3, <1>5, <1>7
<1>9. \A n \in 1 .. Len(batch') : batch'[n] = from + n - 1 /\ batch'[n] \in 1 .. Len(sent)
  BY <1>3, <1>5, <1>7, <1>8
<1>10. batch' # <<>> => batch'[1] = from
  <2>1. batch' # <<>> => Len(batch') > 0
    BY <1>8
  <2> QED BY <1>3, <1>8, <1>9, <2>1
<1>11. InARow'
  <2>1. \A n \in 1 .. Len(batch') : batch' # <<>>
    BY <1>8
  <2> QED BY <1>6, <1>9, <1>10, <2>1 DEF InARow
<1>12. AllBegun'
  BY <1>3, <1>4, <1>6, <1>10 DEF UpdatesInv, AllBegun
<1>13. UpdatesType' /\ BegunOnce'
  BY <1>3, <1>6, <1>8 DEF UpdatesInv, UpdatesType, BegunOnce
<1> QED BY <1>11, <1>12, <1>13 DEF UpdatesInv

\* The first of the batch is the first one not begun since the last restart.
LEMMA BeginKeepsUpdates == UpdatesInv /\ Telegram!Begin => UpdatesInv'
<1> SUFFICES ASSUME UpdatesInv, Telegram!Begin PROVE UpdatesInv'
  OBVIOUS
<1>1. /\ batch # <<>> /\ batch' \in {Tail(batch), <<>>}
      /\ offset' = Head(batch) + 1 /\ begins' = [begins EXCEPT ![Head(batch)] = @ + 1]
      /\ UNCHANGED <<sent, confirmed, restarts>>
  BY DEF Telegram!Begin, Telegram!OffsetPastUpdate, Telegram!telegram, Telegram!agents
<1>2. /\ Head(batch) = batch[1] /\ 1 \in 1 .. Len(batch) /\ Len(batch) \in Nat
      /\ Len(sent) \in Nat /\ Len(begins) = Len(sent) /\ restarts \in Nat /\ offset \in Nat
      /\ DOMAIN begins = 1 .. Len(begins) /\ \A v \in 1 .. Len(begins) : begins[v] \in Nat
  BY <1>1 DEF UpdatesInv, UpdatesType
<1>3. PICK u \in 1 .. Len(sent) : u = batch[1]
  BY <1>2 DEF UpdatesInv, InARow
<1>4. /\ \A n \in 1 .. Len(batch) : batch[n] = u + n - 1 /\ batch[n] \in 1 .. Len(sent)
      /\ u >= offset /\ Begun(begins, u - 1)
  BY <1>1, <1>3 DEF UpdatesInv, InARow, AllBegun
<1>5. begins[u] <= restarts /\ begins[u] \in Nat
  <2>1. ~(u < offset)
    BY <1>2, <1>4
  <2> QED BY <1>2, <1>3, <2>1 DEF UpdatesInv, BegunOnce
<1>6. /\ begins' \in Seq(Nat) /\ Len(begins') = Len(begins) /\ DOMAIN begins' = 1 .. Len(begins)
      /\ begins'[u] = begins[u] + 1 /\ \A v \in 1 .. Len(begins) : v # u => begins'[v] = begins[v]
  <2>1. begins \in Seq(Nat) /\ begins' = [begins EXCEPT ![u] = begins[u] + 1]
    BY <1>1, <1>2, <1>3 DEF UpdatesInv, UpdatesType
  <2> QED BY <1>2, <1>3, <1>5, <2>1
<1>7. \A n : Begun(begins, n) => Begun(begins', n)
  <2> SUFFICES ASSUME NEW n, Begun(begins, n), NEW v \in 1 .. n PROVE v \in DOMAIN begins' /\ begins'[v] > 0
    BY DEF Begun
  <2>1. v \in 1 .. Len(begins) /\ begins[v] > 0
    BY <1>2 DEF Begun
  <2> QED BY <1>2, <1>5, <1>6, <2>1
<1>8. Begun(begins', u)
  <2> SUFFICES ASSUME NEW v \in 1 .. u PROVE v \in DOMAIN begins' /\ begins'[v] > 0
    BY DEF Begun
  <2>1. CASE v = u
    BY <1>2, <1>3, <1>5, <1>6, <2>1
  <2>2. CASE v # u
    <3>1. v \in 1 .. u - 1
      BY <1>3, <2>2
    <3>2. Begun(begins', u - 1)
      BY <1>4, <1>7
    <3> QED BY <3>1, <3>2 DEF Begun
  <2> QED BY <2>1, <2>2
<1>9. batch' \in Seq(Nat) /\ \A n \in 1 .. Len(batch') : batch'[n] = u + n /\ batch'[n] \in 1 .. Len(sent)
  <2>1. CASE batch' = <<>>
    BY <2>1
  <2>2. CASE batch' = Tail(batch)
    <3>1. batch' \in Seq(Nat) /\ Len(batch') = Len(batch) - 1 /\ \A n \in 1 .. Len(batch') : batch'[n] = batch[n + 1]
      BY <1>1, <2>2 DEF UpdatesInv, UpdatesType
    <3> SUFFICES ASSUME NEW n \in 1 .. Len(batch') PROVE batch'[n] = u + n /\ batch'[n] \in 1 .. Len(sent)
      BY <3>1
    <3>2. n + 1 \in 1 .. Len(batch) /\ u + (n + 1) - 1 = u + n
      BY <1>2, <1>3, <3>1
    <3> QED BY <1>4, <3>1, <3>2
  <2> QED BY <1>1, <2>1, <2>2
<1>10. batch' # <<>> => batch'[1] = u + 1
  <2>1. batch' # <<>> => 1 \in 1 .. Len(batch')
    BY <1>9
  <2> QED BY <1>9, <2>1
<1>11. InARow'
  <2> SUFFICES ASSUME NEW n \in 1 .. Len(batch') PROVE batch'[n] = batch'[1] + n - 1
    BY <1>1, <1>9 DEF InARow
  <2>1. batch' # <<>>
    BY <1>9
  <2> QED BY <1>3, <1>9, <1>10, <2>1
<1>12. AllBegun'
  <2>1. (u + 1) - 1 = u
    BY <1>3
  <2>2. Begun(begins', confirmed) /\ Begun(begins', offset' - 1)
    BY <1>1, <1>2, <1>3, <1>7, <1>8, <2>1 DEF UpdatesInv, AllBegun
  <2>3. batch' # <<>> => batch'[1] >= offset' /\ Begun(begins', batch'[1] - 1)
    BY <1>1, <1>2, <1>3, <1>8, <1>10, <2>1
  <2> QED BY <1>1, <2>2, <2>3 DEF AllBegun
<1>13. BegunOnce'
  <2> SUFFICES ASSUME NEW v \in 1 .. Len(begins) PROVE begins'[v] <= restarts \/ (begins'[v] = restarts + 1 /\ v < u + 1)
    BY <1>1, <1>2, <1>3, <1>6 DEF BegunOnce
  <2>1. CASE v = u
    BY <1>2, <1>3, <1>5, <1>6, <2>1
  <2>2. CASE v # u
    <3>1. begins[v] <= restarts \/ (begins[v] = restarts + 1 /\ v < offset)
      BY DEF UpdatesInv, BegunOnce
    <3> QED BY <1>2, <1>3, <1>4, <1>6, <2>2, <3>1
  <2> QED BY <2>1, <2>2
<1>14. UpdatesType'
  <2>1. u + 1 \in Nat
    BY <1>3
  <2> QED BY <1>1, <1>2, <1>3, <1>6, <1>9, <2>1 DEF UpdatesInv, UpdatesType
<1> QED BY <1>11, <1>12, <1>13, <1>14 DEF UpdatesInv

\* After a restart every update counts as not begun.
LEMMA RestartKeepsUpdates == UpdatesInv /\ Telegram!Restart => UpdatesInv'
<1> SUFFICES ASSUME UpdatesInv, Telegram!Restart PROVE UpdatesInv'
  OBVIOUS
<1>1. /\ restarts' = restarts + 1 /\ offset' = 0 /\ batch' = <<>>
      /\ UNCHANGED <<sent, begins, confirmed>>
  BY DEF Telegram!Restart, Telegram!telegram
<1>2. restarts \in Nat /\ \A u \in 1 .. Len(begins) : begins[u] \in Nat
  BY DEF UpdatesInv, UpdatesType
<1>3. \A u \in 1 .. Len(begins) : begins[u] <= restarts + 1
  BY <1>2 DEF UpdatesInv, BegunOnce
<1>4. Len(batch') = 0 /\ batch' \in Seq(Nat) /\ Begun(begins, 0 - 1)
  BY <1>1 DEF Begun
<1> QED BY <1>1, <1>2, <1>3, <1>4 DEF UpdatesInv, UpdatesType, InARow, AllBegun, BegunOnce

\* Every step keeps what holds between them.
LEMMA UpdatesSteps == UpdatesInv /\ [Telegram!Next]_(Telegram!vars) => UpdatesInv'
<1> SUFFICES ASSUME UpdatesInv, [Telegram!Next]_(Telegram!vars) PROVE UpdatesInv'
  OBVIOUS
<1>1. ASSUME Telegram!Done \/ Telegram!Caught \/ (Telegram!DropBatch /\ Telegram!Fault) \/ UNCHANGED Telegram!loop,
             UNCHANGED Telegram!telegram, UNCHANGED restarts
      PROVE  UpdatesInv'
  BY <1>1, BatchStays DEF Telegram!Done, Telegram!Caught, Telegram!DropBatch, Telegram!loop, Telegram!telegram
<1>2. CASE Telegram!BatchEnds \/ Telegram!Dispose \/ Telegram!DisposeFails \/ Telegram!Create \/ Telegram!Resume
  BY <1>1, <1>2 DEF Telegram!BatchEnds, Telegram!Dispose, Telegram!DisposeFails, Telegram!Create, Telegram!Resume
<1>3. CASE Telegram!Clear \/ Telegram!Attach \/ Telegram!AttachFails \/ Telegram!Prompt \/ Telegram!StepFails
  BY <1>1, <1>3 DEF Telegram!Clear, Telegram!Attach, Telegram!AttachFails, Telegram!Prompt, Telegram!StepFails
<1>4. CASE UNCHANGED Telegram!vars
  BY <1>1, <1>4 DEF Telegram!vars
<1> QED BY <1>2, <1>3, <1>4, SendKeepsUpdates, FetchKeepsUpdates, BeginKeepsUpdates, RestartKeepsUpdates
        DEF Telegram!Next, Telegram!Step

\* The bot begins what it has fetched, in a row.
LEMMA UpdatesInvHolds == Telegram!Spec => []UpdatesInv
<1>1. Telegram!Init => UpdatesInv
  BY DEF Telegram!Init, UpdatesInv, UpdatesType, InARow, AllBegun, BegunOnce, Begun
<1> QED BY <1>1, UpdatesSteps, PTL DEF Telegram!Spec

\* Telegram drops no update the bot has not begun, wherever it restarts.
THEOREM NoUpdateIsPassedOver == Telegram!Spec => []EveryUpdateIsBegun
<1>1. UpdatesInv => EveryUpdateIsBegun
  <2> SUFFICES ASSUME UpdatesInv PROVE Telegram!EveryUpdateIsBegun
    BY DEF EveryUpdateIsBegun
  <2>1. \A u \in DOMAIN begins : begins[u] <= 1 + restarts
    <3>1. DOMAIN begins = 1 .. Len(begins) /\ restarts \in Nat /\ \A u \in 1 .. Len(begins) : begins[u] \in Nat
      BY DEF UpdatesInv, UpdatesType
    <3> QED BY <3>1 DEF UpdatesInv, BegunOnce
  <2> QED BY <2>1 DEF UpdatesInv, AllBegun, Begun, Telegram!EveryUpdateIsBegun
<1> QED BY <1>1, UpdatesInvHolds, PTL

-----------------------------------------------------------------------------
(* The agents of the chats *)

\* Agents are numbered as they are created; no two chats have one.
SavedOnce ==
    /\ made \in Nat /\ live \subseteq 1 .. made
    /\ session \in [Chats -> 1 .. made \cup {None}] /\ saved \in [Chats -> 1 .. made \cup {None}]
    /\ \A c, d \in Chats : saved[c] # None /\ saved[d] = saved[c] => d = c

\* The bot has disposed of a chat's session before it creates or resumes its
\* agent, which no other chat has saved.
BotKeepsOrder ==
    /\ bot \in [at : Telegram!Stages, chat : Chats \cup {None}, for : Telegram!Kinds, agent : Nat \cup {None}]
    /\ bot.at \in {"poll", "next"} \/ bot.chat \in Chats
    /\ bot.at = "dispose" => /\ bot.for \in {"new", "resume", "stop"}
                             /\ bot.for = "resume" => saved[bot.chat] # None
    /\ bot.at \in {"create", "resume", "clear", "attach"} => session[bot.chat] = None
    /\ bot.at = "resume" => bot.agent = saved[bot.chat]
    /\ bot.at = "attach" => bot.agent \in live
    /\ bot.at \in {"resume", "attach"} =>
           bot.agent \in 1 .. made /\ \A d \in Chats \ {bot.chat} : saved[d] # bot.agent

AgentsInv == UpdatesInv /\ SavedOnce /\ BotKeepsOrder /\ Telegram!SessionIsSaved

\* Where the bot may be when it has done with an update.
LEMMA DoneIsResting ==
    ASSUME Telegram!Done \/ Telegram!Caught \/ Telegram!DropBatch
    PROVE  /\ bot'.at \in {"poll", "next"}
           /\ bot' \in [at : Telegram!Stages, chat : Chats \cup {None}, for : Telegram!Kinds, agent : Nat \cup {None}]
<1>1. bot' = Telegram!Polling \/ bot' = [Telegram!Polling EXCEPT !.at = "next"]
  BY DEF Telegram!Done, Telegram!Caught, Telegram!DropBatch
<1> QED BY <1>1 DEF Telegram!Polling, Telegram!Stages, Telegram!Kinds

\* A bot at rest leaves every session as it is, and owes none.
LEMMA RestingKeeps ==
    ASSUME AgentsInv, UpdatesInv', bot'.at \in {"poll", "next"},
           bot' \in [at : Telegram!Stages, chat : Chats \cup {None}, for : Telegram!Kinds, agent : Nat \cup {None}],
           UNCHANGED <<session, saved, live, made>>,
           leaked \subseteq leaked', bot.at = "attach" => bot.agent \in leaked'
    PROVE  AgentsInv'
<1>1. SavedOnce' /\ BotKeepsOrder'
  BY DEF AgentsInv, SavedOnce, BotKeepsOrder
<1>2. Telegram!SessionIsSaved'
  BY DEF AgentsInv, Telegram!SessionIsSaved, Telegram!At
<1> QED BY <1>1, <1>2 DEF AgentsInv

\* The bot goes on with the same chat and opens nothing.
LEMMA GoingOnKeeps ==
    ASSUME AgentsInv, UpdatesInv', BotKeepsOrder', bot.at # "attach", UNCHANGED <<session, saved, live, made, leaked>>
    PROVE  AgentsInv'
<1>1. Telegram!SessionIsSaved'
  BY DEF AgentsInv, Telegram!SessionIsSaved, Telegram!At
<1> QED BY <1>1 DEF AgentsInv, SavedOnce

\* An update is begun with the chat it came from.
LEMMA BeginKeepsAgents == AgentsInv /\ Telegram!Begin => AgentsInv'
<1> SUFFICES ASSUME AgentsInv, Telegram!Begin PROVE AgentsInv'
  OBVIOUS
<1>1. UpdatesInv' /\ bot.at = "next" /\ UNCHANGED <<session, saved, live, made, leaked>>
  BY BeginKeepsUpdates DEF AgentsInv, Telegram!Begin, Telegram!At, Telegram!agents
<1>2. PICK update \in [chat : Chats, kind : Telegram!Kinds] : update = Telegram!Update
  <2>1. batch # <<>> /\ batch \in Seq(Nat) /\ InARow /\ sent \in Seq([chat : Chats, kind : Telegram!Kinds])
    BY DEF AgentsInv, UpdatesInv, UpdatesType, Telegram!Begin
  <2>2. 1 \in 1 .. Len(batch) /\ Head(batch) = batch[1]
    BY <2>1
  <2>3. PICK u \in 1 .. Len(sent) : u = Head(batch)
    BY <2>1, <2>2 DEF InARow
  <2>4. sent[u] \in [chat : Chats, kind : Telegram!Kinds]
    <3>1. PICK S : S = [chat : Chats, kind : Telegram!Kinds]
      OBVIOUS
    <3>2. sent \in Seq(S)
      BY <2>1, <3>1
    <3>3. sent[u] \in S
      BY <3>2
    <3> QED BY <3>1, <3>3
  <2> QED BY <2>3, <2>4 DEF Telegram!Update
<1>3. CASE bot' = Telegram!Polling
  BY <1>1, <1>3, RestingKeeps DEF Telegram!Polling, Telegram!Stages, Telegram!Kinds
<1>4. CASE bot' = [at |-> Telegram!Entry, chat |-> IF Telegram!Entry = "next" THEN None ELSE update.chat,
                   for |-> IF Telegram!Entry = "next" THEN "other" ELSE update.kind, agent |-> None]
  <2>1. Telegram!Entry \in {"dispose", "prompt", "next"}
    BY DEF Telegram!Entry
  <2>2. Telegram!Entry = "dispose" =>
            update.kind \in {"new", "stop"} \/ (update.kind = "resume" /\ saved[update.chat] # None)
    BY <1>2 DEF Telegram!Entry
  <2>3. bot' \in [at : Telegram!Stages, chat : Chats \cup {None}, for : Telegram!Kinds, agent : Nat \cup {None}]
    BY <1>2, <1>4, <2>1 DEF Telegram!Stages, Telegram!Kinds
  <2>4. BotKeepsOrder'
    BY <1>1, <1>2, <1>4, <2>1, <2>2, <2>3 DEF BotKeepsOrder
  <2> QED BY <1>1, <2>4, GoingOnKeeps
<1> QED BY <1>2, <1>3, <1>4 DEF Telegram!Begin

\* What is saved when a session ends is the agent that was saved already.
LEMMA DisposeKeepsAgents == AgentsInv /\ UpdatesInv' /\ Telegram!Dispose => AgentsInv'
<1> SUFFICES ASSUME AgentsInv, UpdatesInv', Telegram!Dispose PROVE AgentsInv'
  OBVIOUS
<1>1. PICK c \in Chats : c = bot.chat
  BY DEF AgentsInv, BotKeepsOrder, Telegram!Dispose, Telegram!At
<1>2. bot.at = "dispose" /\ bot.for \in {"new", "resume", "stop"} /\ (bot.for = "resume" => saved[c] # None)
  BY <1>1 DEF AgentsInv, BotKeepsOrder, Telegram!Dispose, Telegram!At
<1>3. UNCHANGED <<saved, made, leaked>>
  BY <1>1 DEF AgentsInv, SavedOnce, Telegram!SessionIsSaved, Telegram!Dispose, Telegram!Chat
<1>4. /\ session' = [session EXCEPT ![c] = None]
      /\ IF session[c] = None THEN live' = live ELSE live' = live \ {session[c]}
  BY <1>1 DEF AgentsInv, SavedOnce, Telegram!Dispose, Telegram!Chat
<1>5. /\ bot'.at \in {"poll", "next", "create", "resume"}
      /\ bot' \in [at : Telegram!Stages, chat : Chats \cup {None}, for : Telegram!Kinds, agent : Nat \cup {None}]
      /\ bot'.at \in {"create", "resume"} => bot'.chat = c
      /\ bot'.at = "resume" => bot'.agent = saved[c] /\ bot'.agent # None
  <2>1. CASE bot.for = "stop"
    BY <2>1, DoneIsResting DEF Telegram!Dispose
  <2>2. CASE bot.for # "stop"
    <3>1. bot' = [bot EXCEPT !.at = Telegram!Then, !.agent = Telegram!Found]
      BY <2>2 DEF Telegram!Dispose
    <3>2. /\ Telegram!Then \in {"create", "resume"} /\ (Telegram!Then = "resume" => bot.for = "resume")
          /\ Telegram!Found \in Nat \cup {None} /\ (bot.for = "resume" => Telegram!Found = saved[c])
      BY <1>1, <1>2, <2>2 DEF Telegram!Then, Telegram!Found, Telegram!Chat, AgentsInv, SavedOnce
    <3>3. bot \in [at : Telegram!Stages, chat : Chats \cup {None}, for : Telegram!Kinds, agent : Nat \cup {None}]
      BY DEF AgentsInv, BotKeepsOrder
    <3> QED BY <1>1, <1>2, <3>1, <3>2, <3>3 DEF Telegram!Stages
  <2> QED BY <2>1, <2>2
<1>6. SavedOnce'
  BY <1>3, <1>4 DEF AgentsInv, SavedOnce
<1>7. BotKeepsOrder'
  BY <1>3, <1>4, <1>5 DEF AgentsInv, SavedOnce, BotKeepsOrder
<1>8. Telegram!SessionIsSaved'
  <2>1. \A d \in Chats : session'[d] # None => d # c /\ session'[d] = session[d]
    BY <1>4 DEF AgentsInv, SavedOnce
  <2>2. \A d \in Chats : session'[d] # None => saved[d] = session[d] /\ session[d] \in live'
    BY <1>4, <2>1 DEF AgentsInv, SavedOnce, Telegram!SessionIsSaved
  <2>3. live' \subseteq {session'[d] : d \in Chats} \cup leaked
    <3> SUFFICES ASSUME NEW agent \in live', agent \notin leaked PROVE \E d \in Chats : agent = session'[d]
      OBVIOUS
    <3>1. PICK d \in Chats : agent = session[d]
      BY <1>2, <1>4 DEF AgentsInv, Telegram!SessionIsSaved, Telegram!At
    <3>2. CASE d = c
      BY <1>4, <3>1, <3>2 DEF AgentsInv, SavedOnce
    <3>3. CASE d # c
      BY <1>4, <3>1, <3>3 DEF AgentsInv, SavedOnce
    <3> QED BY <3>2, <3>3
  <2> QED BY <1>3, <2>1, <2>2, <2>3 DEF Telegram!SessionIsSaved
<1> QED BY <1>6, <1>7, <1>8 DEF AgentsInv

\* The agent to be attached is a new one or the one the chat has saved.
LEMMA OpeningKeepsAgents ==
    ASSUME AgentsInv, UpdatesInv', Telegram!Create \/ Telegram!Resume \/ Telegram!Clear
    PROVE  AgentsInv'
<1>1. PICK c \in Chats : c = bot.chat
  BY DEF AgentsInv, BotKeepsOrder, Telegram!Create, Telegram!Resume, Telegram!Clear, Telegram!At
<1>2. /\ session[c] = None /\ session' = session /\ leaked' = leaked /\ made \in Nat
      /\ bot.at \in {"create", "resume", "clear"}
      /\ bot \in [at : Telegram!Stages, chat : Chats \cup {None}, for : Telegram!Kinds, agent : Nat \cup {None}]
  BY <1>1 DEF AgentsInv, BotKeepsOrder, SavedOnce, Telegram!Create, Telegram!Resume, Telegram!Clear, Telegram!At, Telegram!agents
<1>3. CASE Telegram!Create
  <2>1. made' = made + 1 /\ live' = live \cup {made + 1} /\ bot' = [bot EXCEPT !.at = "attach", !.agent = made + 1]
        /\ saved' = saved
    BY <1>3 DEF Telegram!Create
  <2>2. \A d \in Chats : saved[d] # made + 1
    BY <1>2, ValuesAssumption DEF AgentsInv, SavedOnce
  <2>3. SavedOnce'
    <3>1. 1 .. made \subseteq 1 .. made + 1 /\ made + 1 \in Nat
      BY <1>2
    <3> QED BY <1>2, <2>1, <3>1 DEF AgentsInv, SavedOnce
  <2>4. BotKeepsOrder'
    <3>1. /\ bot'.at = "attach" /\ bot'.agent = made + 1 /\ bot'.chat = c
          /\ bot' \in [at : Telegram!Stages, chat : Chats \cup {None}, for : Telegram!Kinds, agent : Nat \cup {None}]
      <4>1. made + 1 \in Nat /\ "attach" \in Telegram!Stages
        BY <1>2 DEF Telegram!Stages
      <4>2. PICK b : b = bot
        OBVIOUS
      <4>3. bot' = [b EXCEPT !.at = "attach", !.agent = made + 1]
        BY <2>1, <4>2
      <4> QED BY <1>1, <1>2, <4>1, <4>2, <4>3
    <3>2. made + 1 \in 1 .. made + 1
      BY <1>2
    <3> QED BY <1>2, <2>1, <2>2, <3>1, <3>2 DEF BotKeepsOrder
  <2>5. Telegram!SessionIsSaved'
    BY <1>2, <2>1 DEF AgentsInv, Telegram!SessionIsSaved, Telegram!At
  <2> QED BY <2>3, <2>4, <2>5 DEF AgentsInv
<1>4. CASE Telegram!Resume
  <2>1. bot.at = "resume" /\ UNCHANGED <<saved, made>>
        /\ \/ live' = live \cup {bot.agent} /\ bot' = [bot EXCEPT !.at = "attach"]
           \/ live' = live /\ bot' = [bot EXCEPT !.at = "clear"]
    BY <1>4 DEF Telegram!Resume, Telegram!At, Telegram!Go
  <2>2. SavedOnce'
    <3>1. live' \subseteq 1 .. made
      BY <2>1 DEF AgentsInv, SavedOnce, BotKeepsOrder
    <3> QED BY <1>2, <2>1, <3>1 DEF AgentsInv, SavedOnce
  <2>3. BotKeepsOrder'
    BY <1>1, <1>2, <2>1 DEF AgentsInv, BotKeepsOrder, Telegram!Stages
  <2>4. Telegram!SessionIsSaved'
    BY <1>2, <2>1 DEF AgentsInv, Telegram!SessionIsSaved, Telegram!At
  <2> QED BY <2>2, <2>3, <2>4 DEF AgentsInv
<1>5. CASE Telegram!Clear
  <2>1. saved' = [saved EXCEPT ![c] = None] /\ bot' = [bot EXCEPT !.at = "create", !.agent = None]
        /\ UNCHANGED <<live, made>>
    BY <1>1, <1>5 DEF Telegram!Clear, Telegram!Chat, Telegram!agents
  <2>2. SavedOnce'
    BY <1>2, <2>1 DEF AgentsInv, SavedOnce
  <2>3. BotKeepsOrder'
    BY <1>1, <1>2, <2>1 DEF BotKeepsOrder, Telegram!Stages
  <2>4. Telegram!SessionIsSaved'
    BY <1>2, <2>1 DEF AgentsInv, SavedOnce, Telegram!SessionIsSaved, Telegram!At
  <2> QED BY <2>2, <2>3, <2>4 DEF AgentsInv
<1> QED BY <1>3, <1>4, <1>5

\* An agent is saved before its session opens.
LEMMA AttachKeepsAgents == AgentsInv /\ UpdatesInv' /\ Telegram!Attach => AgentsInv'
<1> SUFFICES ASSUME AgentsInv, UpdatesInv', Telegram!Attach PROVE AgentsInv'
  OBVIOUS
<1>1. bot.at = "attach"
  BY DEF Telegram!Attach, Telegram!At
<1>2. PICK c \in Chats : c = bot.chat
  BY <1>1 DEF AgentsInv, BotKeepsOrder
<1>3. /\ session[c] = None /\ bot.agent \in 1 .. made
      /\ \A d \in Chats \ {c} : saved[d] # bot.agent
  BY <1>1, <1>2 DEF AgentsInv, BotKeepsOrder
<1>4. /\ saved' = [saved EXCEPT ![c] = bot.agent] /\ session' = [session EXCEPT ![c] = bot.agent]
      /\ UNCHANGED <<live, made, leaked>>
  BY <1>2 DEF Telegram!Attach, Telegram!Chat, Telegram!agents
<1>5. /\ bot'.at \in {"poll", "next"}
      /\ bot' \in [at : Telegram!Stages, chat : Chats \cup {None}, for : Telegram!Kinds, agent : Nat \cup {None}]
  BY DoneIsResting DEF Telegram!Attach
<1>6. SavedOnce'
  BY <1>3, <1>4 DEF AgentsInv, SavedOnce
<1>7. BotKeepsOrder'
  BY <1>5 DEF BotKeepsOrder
<1>8. Telegram!SessionIsSaved'
  <2>1. session'[c] = bot.agent /\ \A d \in Chats : d # c => session'[d] = session[d] /\ saved'[d] = saved[d]
    BY <1>4 DEF AgentsInv, SavedOnce
  <2>2. bot.agent \in live
    BY <1>1 DEF AgentsInv, BotKeepsOrder
  <2>3. saved'[c] = bot.agent
    BY <1>4 DEF AgentsInv, SavedOnce
  <2>4. \A d \in Chats : session'[d] # None => saved'[d] = session'[d] /\ session'[d] \in live
    BY <2>1, <2>2, <2>3 DEF AgentsInv, Telegram!SessionIsSaved
  <2>5. live \subseteq {session'[d] : d \in Chats} \cup leaked
    <3> SUFFICES ASSUME NEW agent \in live, agent \notin leaked PROVE \E d \in Chats : agent = session'[d]
      OBVIOUS
    <3>1. CASE agent = bot.agent
      BY <2>1, <3>1
    <3>2. CASE agent # bot.agent
      <4>1. PICK d \in Chats : agent = session[d]
        BY <3>2 DEF AgentsInv, Telegram!SessionIsSaved
      <4>2. CASE d = c
        BY <1>3, <4>1, <4>2, ValuesAssumption DEF AgentsInv, SavedOnce
      <4>3. CASE d # c
        BY <2>1, <4>1, <4>3
      <4> QED BY <4>2, <4>3
    <3> QED BY <3>1, <3>2
  <2> QED BY <1>4, <2>4, <2>5 DEF Telegram!SessionIsSaved
<1> QED BY <1>6, <1>7, <1>8 DEF AgentsInv

\* What a prompt saves was saved, and a restart forgets what was open.
LEMMA PromptKeepsAgents == AgentsInv /\ UpdatesInv' /\ (Telegram!Prompt \/ Telegram!Restart) => AgentsInv'
<1>1. ASSUME AgentsInv, UpdatesInv', Telegram!Prompt PROVE AgentsInv'
  <2>1. bot.at = "prompt" /\ UNCHANGED <<session, live, made, leaked>>
    BY <1>1 DEF Telegram!Prompt, Telegram!At, Telegram!agents
  <2>2. PICK c \in Chats : c = bot.chat
    BY <1>1, <2>1 DEF AgentsInv, BotKeepsOrder
  <2>3. saved' = [saved EXCEPT ![c] = session[c]]
    BY <1>1, <2>2 DEF Telegram!Prompt, Telegram!Chat
  <2>4. SavedOnce'
    BY <1>1, <2>1, <2>3 DEF AgentsInv, SavedOnce, Telegram!SessionIsSaved
  <2>5. BotKeepsOrder'
    BY <1>1, DoneIsResting DEF Telegram!Prompt, BotKeepsOrder
  <2>6. bot'.at # "attach"
    BY <1>1, DoneIsResting DEF Telegram!Prompt
  <2>7. Telegram!SessionIsSaved'
    BY <1>1, <2>1, <2>3, <2>6 DEF AgentsInv, SavedOnce, Telegram!SessionIsSaved, Telegram!At
  <2> QED BY <1>1, <2>4, <2>5, <2>7 DEF AgentsInv
<1>2. ASSUME AgentsInv, UpdatesInv', Telegram!Restart PROVE AgentsInv'
  <2>1. /\ session' = [d \in Chats |-> None] /\ live' = {} /\ UNCHANGED <<saved, made>>
        /\ bot' = Telegram!Polling
    BY <1>2 DEF Telegram!Restart
  <2>2. SavedOnce' /\ Telegram!SessionIsSaved'
    BY <1>2, <2>1 DEF AgentsInv, SavedOnce, Telegram!SessionIsSaved
  <2>3. BotKeepsOrder'
    BY <2>1 DEF BotKeepsOrder, Telegram!Polling, Telegram!Stages, Telegram!Kinds
  <2> QED BY <1>2, <2>2, <2>3 DEF AgentsInv
<1> QED BY <1>1, <1>2

\* What fails is caught or ends the batch.
LEMMA FailuresKeepAgents ==
    ASSUME AgentsInv, UpdatesInv', Telegram!DisposeFails \/ Telegram!AttachFails \/ Telegram!StepFails
    PROVE  AgentsInv'
<1>1. /\ bot'.at \in {"poll", "next"}
      /\ bot' \in [at : Telegram!Stages, chat : Chats \cup {None}, for : Telegram!Kinds, agent : Nat \cup {None}]
  BY DoneIsResting DEF Telegram!DisposeFails, Telegram!AttachFails, Telegram!StepFails
<1>2. /\ UNCHANGED <<session, saved, live, made>> /\ leaked \subseteq leaked'
      /\ bot.at = "attach" => bot.agent \in leaked'
  BY DEF Telegram!DisposeFails, Telegram!AttachFails, Telegram!StepFails, Telegram!agents, Telegram!At
<1> QED BY <1>1, <1>2, RestingKeeps

\* The loop leaves the sessions alone.
LEMMA LoopKeepsAgents ==
    ASSUME AgentsInv, UpdatesInv',
           \/ Telegram!Fetch \/ Telegram!BatchEnds \/ UNCHANGED Telegram!vars
           \/ \E c \in Chats, kind \in Telegram!Kinds : Telegram!Send(c, kind)
    PROVE  AgentsInv'
<1>1. CASE Telegram!Fetch \/ Telegram!BatchEnds
  <2>1. /\ bot.at \in {"poll", "next"} /\ UNCHANGED <<session, saved, live, made, leaked>>
        /\ bot' = [bot EXCEPT !.at = "next"] \/ bot' = [bot EXCEPT !.at = "poll"]
    BY <1>1 DEF Telegram!Fetch, Telegram!BatchEnds, Telegram!At, Telegram!Go, Telegram!agents
  <2>2. bot'.at \in {"poll", "next"} /\ bot' \in [at : Telegram!Stages, chat : Chats \cup {None}, for : Telegram!Kinds, agent : Nat \cup {None}]
    BY <2>1 DEF AgentsInv, BotKeepsOrder, Telegram!Stages
  <2> QED BY <2>1, <2>2, RestingKeeps
<1>2. CASE UNCHANGED Telegram!vars \/ \E c \in Chats, kind \in Telegram!Kinds : Telegram!Send(c, kind)
  <2>1. UNCHANGED <<bot, session, saved, live, made, leaked>>
    BY <1>2 DEF Telegram!vars, Telegram!agents, Telegram!Send
  <2> QED BY <2>1 DEF AgentsInv, SavedOnce, BotKeepsOrder, Telegram!SessionIsSaved, Telegram!At
<1> QED BY <1>1, <1>2

\* The agent a chat talks to is saved, open, and its only open one.
THEOREM OpenSessionsAreSaved == Telegram!Spec => []SessionIsSaved
<1>1. Telegram!Init => AgentsInv
  <2> SUFFICES ASSUME Telegram!Init PROVE AgentsInv
    OBVIOUS
  <2>1. UpdatesInv
    BY DEF Telegram!Init, UpdatesInv, UpdatesType, InARow, AllBegun, BegunOnce, Begun
  <2>2. SavedOnce /\ Telegram!SessionIsSaved
    BY DEF Telegram!Init, SavedOnce, Telegram!SessionIsSaved
  <2>3. BotKeepsOrder
    BY DEF Telegram!Init, BotKeepsOrder, Telegram!Polling, Telegram!Stages, Telegram!Kinds
  <2> QED BY <2>1, <2>2, <2>3 DEF AgentsInv
<1>2. AgentsInv /\ [Telegram!Next]_(Telegram!vars) => AgentsInv'
  <2> SUFFICES ASSUME AgentsInv, [Telegram!Next]_(Telegram!vars) PROVE AgentsInv'
    OBVIOUS
  <2>1. UpdatesInv'
    BY UpdatesSteps DEF AgentsInv
  <2> QED BY <2>1, BeginKeepsAgents, DisposeKeepsAgents, OpeningKeepsAgents, AttachKeepsAgents, PromptKeepsAgents,
             FailuresKeepAgents, LoopKeepsAgents DEF Telegram!Next, Telegram!Step
<1>3. AgentsInv => SessionIsSaved
  BY DEF AgentsInv, SessionIsSaved
<1> QED BY <1>1, <1>2, <1>3, PTL DEF Telegram!Spec

-----------------------------------------------------------------------------
(* The settings of the panel *)

Editing == {"add", "remove", "import"}
Rebuilding == {"rebuild", "refresh"}

Call ==
    {c \in [at : {"idle", "ask", "selected", "write", "store"},
            op : {"read", "other", "written", "imported"} \cup Editing \cup Rebuilding,
            link : Links \cup {None}, links : SUBSET Links, behind : BOOLEAN] :
        c.op \in Editing => c.link \in Links}

Cached == [links : SUBSET Links, behind : BOOLEAN, beside : SUBSET Requests]

SettingsType ==
    /\ row \in SUBSET Links /\ meantLinks \in SUBSET Links
    /\ call \in [Settings!Callers -> Call]
    /\ cache = None \/ cache \in Cached
    /\ file \in [Users -> SUBSET Links] /\ jobs \in Nat

\* What was read is the row of the database, or known to be behind it.
Current(c, links) == c.behind \/ c.links = links

\* An edit that is being written has been applied to what was read.
Ready(c, links) ==
    /\ c.at = "selected" => Current(c, links)
    /\ c.at = "write" => /\ c.op \in {"other"} \cup Editing
                         /\ c.behind \/ c.links = Settings!Applied(links, c.op, c.link)

\* A cache that was filled before an edit began to write is gone by then.
CacheFits(c, links, writing) == c = None \/ (c \in Cached /\ Current(c, links) /\ writing \subseteq c.beside)
CacheFollows == CacheFits(cache, row, Settings!Writing)

\* An edit whose rebuild is still to come, from the queue or the import.
Queued == jobs > 0 \/ \E r \in Requests : call[r].at # "idle" /\ call[r].op = "written"
Importing == \E r \in Requests : call[r].at # "idle" /\ call[r].op = "imported"

\* A rebuild of the client's file is under way.
UnderWay(u) == \E w \in Settings!Rebuilds : w[2] = u /\ call[w].at # "idle" /\ call[w].op = "rebuild"

\* A file without the links of the row is one that a rebuild will replace; a
\* rebuild that is not made good by the queue stores the links of the row.
FilesFollow ==
    /\ \A w \in Settings!Rebuilds :
         call[w].at = "store" /\ (w[1] # None \/ ~Queued) => Current(call[w], row)
    /\ Queued \/ Importing \/ \A u \in Users : u \in owed \/ file[u] = row \/ UnderWay(u)

SettingsInv ==
    /\ SettingsType /\ CacheFollows /\ FilesFollow
    /\ \A p \in Settings!Callers : Ready(call[p], row)
    /\ \A w \in Settings!Rebuilds : call[w].at # "idle" => call[w].op \in Rebuilding
    /\ overtaken \/ row = meantLinks

\* A rebuild is for a client, and no request.
LEMMA RebuildsAre ==
    /\ Requests \subseteq Settings!Callers /\ Settings!Rebuilds \subseteq Settings!Callers
    /\ Requests \cap Settings!Rebuilds = {}
    /\ Settings!Callers = Requests \cup Settings!Rebuilds
    /\ \A w \in Settings!Rebuilds : w[1] \in Requests \cup {None} /\ w[2] \in Users
    /\ \A r \in Requests \cup {None}, u \in Users :
         <<r, u>> \in Settings!Rebuilds /\ <<r, u>>[1] = r /\ <<r, u>>[2] = u
BY ValuesAssumption DEF Settings!Rebuilds, Settings!Callers

LEMMA IdleCall ==
    /\ Settings!Idle \in Call /\ Settings!Idle.at = "idle" /\ Ready(Settings!Idle, row)
    /\ Settings!Rebuild \in Call /\ Settings!Rebuild.at = "ask" /\ Settings!Rebuild.op = "rebuild"
    /\ \A links : Ready(Settings!Rebuild, links) /\ Ready(Settings!Idle, links)
BY DEF Settings!Idle, Settings!Rebuild, Call, Ready, Editing, Rebuilding

\* An edit of links yields links.
LEMMA AppliedLinks ==
    ASSUME NEW links \in SUBSET Links, NEW op, NEW link, op \in Editing => link \in Links
    PROVE  Settings!Applied(links, op, link) \in SUBSET Links
BY DEF Settings!Applied, Editing

\* Fewer requests are writing: the cache still follows the row.
LEMMA CacheStays ==
    ASSUME SettingsInv, cache' \in {cache, None}, row' = row, Settings!Writing' \subseteq Settings!Writing
    PROVE  CacheFollows'
BY DEF SettingsInv, CacheFollows, CacheFits, Current

\* A step of one caller that leaves the row and the files alone.
LEMMA CallSteps ==
    ASSUME SettingsInv, NEW p \in Settings!Callers, NEW c \in Call, call' = [call EXCEPT ![p] = c],
           UNCHANGED <<row, file, meantLinks, overtaken, owed>>,
           jobs' \in Nat, jobs' >= jobs,
           p \in Settings!Rebuilds =>
               /\ c.at # "idle" /\ c.op \in Rebuilding
               /\ call[p].at # "idle" /\ call[p].op = "rebuild" => c.op = "rebuild",
           Ready(c, row), c.at = "store" => Current(c, row),
           call[p].at # "idle" /\ call[p].op = "written" => jobs' > 0 \/ (c.at # "idle" /\ c.op = "written"),
           call[p].at # "idle" /\ call[p].op = "imported" => c.at # "idle" /\ c.op = "imported",
           CacheFits(cache', row, Settings!Writing')
    PROVE  SettingsInv'
<1>1. /\ call' \in [Settings!Callers -> Call] /\ call'[p] = c
      /\ \A q \in Settings!Callers : q # p => call'[q] = call[q]
  BY DEF SettingsInv, SettingsType
<1>2. SettingsType' /\ CacheFollows'
  <2>1. cache' = None \/ cache' \in Cached
    BY DEF CacheFits
  <2>2. SettingsType'
    BY <1>1, <2>1 DEF SettingsInv, SettingsType
  <2>3. CacheFollows'
    BY DEF CacheFollows, CacheFits
  <2> QED BY <2>2, <2>3
<1>3. Queued => Queued'
  <2>1. CASE jobs > 0
    BY <2>1 DEF Queued, SettingsInv, SettingsType
  <2>2. CASE \E r \in Requests : call[r].at # "idle" /\ call[r].op = "written"
    BY <1>1, <2>2, RebuildsAre DEF Queued
  <2> QED BY <2>1, <2>2 DEF Queued
<1>4. Importing => Importing'
  BY <1>1, RebuildsAre DEF Importing
<1>5. \A u \in Users : UnderWay(u) => UnderWay(u)'
  BY <1>1, RebuildsAre DEF UnderWay
<1>6. ASSUME NEW w \in Settings!Rebuilds, call'[w].at = "store", w[1] # None \/ ~Queued'
      PROVE  Current(call'[w], row)
  <2>1. CASE w = p
    BY <1>1, <1>6, <2>1
  <2>2. CASE w # p
    BY <1>1, <1>3, <1>6, <2>2, RebuildsAre DEF SettingsInv, FilesFollow
  <2> QED BY <2>1, <2>2
<1>7. Queued' \/ Importing' \/ \A u \in Users : u \in owed \/ file[u] = row \/ UnderWay(u)'
  BY <1>3, <1>4, <1>5 DEF SettingsInv, FilesFollow
<1>8. FilesFollow'
  BY <1>6, <1>7 DEF FilesFollow
<1>9. \A q \in Settings!Callers : Ready(call'[q], row)
  BY <1>1 DEF SettingsInv
<1>10. \A w \in Settings!Rebuilds : call'[w].at # "idle" => call'[w].op \in Rebuilding
  BY <1>1, RebuildsAre DEF SettingsInv
<1> QED BY <1>2, <1>8, <1>9, <1>10 DEF SettingsInv

\* An import is answered, and rebuilds every file.
LEMMA ImportedKeeps ==
    ASSUME SettingsInv, NEW r \in Requests, call[r].at # "idle", call[r].op = "imported",
           NEW now, CacheFits(now, row, Settings!Writing), cache' = now,
           call' = [q \in Settings!Callers |-> CASE q = r -> Settings!Idle
                                                 [] q \in {r} \X Users -> Settings!Rebuild
                                                 [] OTHER -> call[q]],
           UNCHANGED <<row, file, meantLinks, overtaken, owed, jobs>>
    PROVE  SettingsInv'
<1>1. /\ call' \in [Settings!Callers -> Call] /\ call'[r] = Settings!Idle
      /\ \A q \in Settings!Callers : q # r => call'[q] \in {call[q], Settings!Rebuild}
  BY RebuildsAre, IdleCall DEF SettingsInv, SettingsType
<1>2. \A u \in Users : call'[<<r, u>>] = Settings!Rebuild
  <2> SUFFICES ASSUME NEW u \in Users PROVE call'[<<r, u>>] = Settings!Rebuild
    OBVIOUS
  <2>1. <<r, u>> \in Settings!Callers /\ <<r, u>> # r /\ <<r, u>> \in {r} \X Users
    BY RebuildsAre
  <2> QED BY <2>1
<1>3. \A q \in Requests : q # r => call'[q] = call[q]
  <2> SUFFICES ASSUME NEW q \in Requests, q # r PROVE call'[q] = call[q]
    OBVIOUS
  <2>1. q \in Settings!Callers /\ q \notin {r} \X Users
    BY ValuesAssumption, RebuildsAre
  <2> QED BY <2>1
<1>4. SettingsType'
  BY <1>1 DEF SettingsInv, SettingsType, CacheFits
<1>5. CacheFollows'
  <2>1. Settings!Writing' \subseteq Settings!Writing
    BY <1>1, <1>3, IdleCall DEF Settings!Writing, Settings!At
  <2> QED BY <2>1 DEF CacheFollows, CacheFits
<1>6. Queued => Queued'
  BY <1>3 DEF Queued
<1>7. \A u \in Users : UnderWay(u)'
  BY <1>2, RebuildsAre, IdleCall DEF UnderWay
<1>8. ASSUME NEW w \in Settings!Rebuilds, call'[w].at = "store", w[1] # None \/ ~Queued'
      PROVE  Current(call'[w], row)
  <2>1. call'[w] = call[w]
    BY <1>1, <1>8, RebuildsAre, IdleCall
  <2> QED BY <1>6, <1>8, <2>1 DEF SettingsInv, FilesFollow
<1>9. FilesFollow'
  BY <1>7, <1>8 DEF FilesFollow
<1>10. \A q \in Settings!Callers : Ready(call'[q], row)
  BY <1>1, IdleCall DEF SettingsInv
<1>11. \A w \in Settings!Rebuilds : call'[w].at # "idle" => call'[w].op \in Rebuilding
  BY <1>1, RebuildsAre, IdleCall DEF SettingsInv, Rebuilding
<1> QED BY <1>4, <1>5, <1>9, <1>10, <1>11 DEF SettingsInv

\* An answer, from the cache or from the database.
LEMMA AnswerKeeps ==
    ASSUME SettingsInv, NEW p \in Settings!Callers, call[p].at \in {"ask", "selected"},
           NEW links \in SUBSET Links, NEW behind \in BOOLEAN, behind \/ links = row,
           NEW now, CacheFits(now, row, Settings!Writing),
           Settings!Answer(p, links, behind, now),
           UNCHANGED <<row, file, meantLinks, overtaken, owed>>
    PROVE  SettingsInv'
<1>1. /\ call \in [Settings!Callers -> Call] /\ call[p] \in Call /\ jobs \in Nat
      /\ (p \in Settings!Rebuilds => call[p].op \in Rebuilding)
  BY DEF SettingsInv, SettingsType
<1>2. jobs >= jobs
  BY <1>1
<1>3. ASSUME NEW c \in Call, call' = [call EXCEPT ![p] = c], c.at # "write", cache' = now
      PROVE  CacheFits(cache', row, Settings!Writing')
  <2>1. Settings!Writing' \subseteq Settings!Writing
    BY <1>1, <1>3 DEF Settings!Writing, Settings!At
  <2> QED BY <1>3, <2>1 DEF CacheFits
<1>4. CASE call[p].op = "read"
  <2>1. call' = [call EXCEPT ![p] = Settings!Idle] /\ cache' = now /\ jobs' = jobs
    BY <1>4 DEF Settings!Answer
  <2>2. CacheFits(cache', row, Settings!Writing')
    BY <1>3, <2>1, IdleCall
  <2>3. p \notin Settings!Rebuilds /\ jobs' \in Nat /\ jobs' >= jobs
    BY <1>1, <1>4, <2>1 DEF Rebuilding
  <2> QED BY <1>4, <2>1, <2>2, <2>3, IdleCall, CallSteps
<1>5. CASE call[p].op = "written"
  <2>1. call' = [call EXCEPT ![p] = Settings!Idle] /\ cache' = now /\ jobs' = jobs + 1
    BY <1>5 DEF Settings!Answer
  <2>2. jobs' \in Nat /\ jobs' >= jobs /\ jobs' > 0 /\ p \notin Settings!Rebuilds
    BY <1>1, <1>5, <2>1 DEF Rebuilding
  <2>3. CacheFits(cache', row, Settings!Writing')
    BY <1>3, <2>1, IdleCall
  <2> QED BY <1>5, <2>1, <2>2, <2>3, IdleCall, CallSteps
<1>6. CASE call[p].op = "imported"
  <2>1. p \in Requests
    BY <1>1, <1>6, RebuildsAre DEF Rebuilding
  <2>2. /\ cache' = now /\ jobs' = jobs
        /\ call' = [q \in Settings!Callers |-> CASE q = p -> Settings!Idle
                                                 [] q \in {p} \X Users -> Settings!Rebuild
                                                 [] OTHER -> call[q]]
    BY <1>6 DEF Settings!Answer
  <2> QED BY <1>6, <2>1, <2>2, ImportedKeeps
<1>7. CASE call[p].op \in Rebuilding
  <2>1. PICK c : c = [call[p] EXCEPT !.at = "store", !.links = links, !.behind = behind]
    OBVIOUS
  <2>2. /\ c \in Call /\ c.at = "store" /\ c.op = call[p].op /\ c.links = links /\ c.behind = behind
    BY <1>1, <1>7, <2>1 DEF Call
  <2>3. call' = [call EXCEPT ![p] = c] /\ cache' = now /\ jobs' = jobs
    BY <1>1, <1>7, <2>1 DEF Settings!Answer, Rebuilding
  <2>4. Ready(c, row) /\ Current(c, row)
    BY <2>2 DEF Ready, Current
  <2>5. CacheFits(cache', row, Settings!Writing')
    BY <1>3, <2>2, <2>3
  <2>6. jobs' \in Nat /\ jobs' >= jobs /\ call[p].op \notin {"written", "imported"}
    BY <1>1, <1>7, <2>3 DEF Rebuilding
  <2> QED BY <1>7, <2>2, <2>3, <2>4, <2>5, <2>6, CallSteps
<1>8. CASE call[p].op \in {"other"} \cup Editing
  <2>0. p \notin Settings!Rebuilds /\ call[p].op \notin {"written", "imported"}
    BY <1>1, <1>8 DEF Rebuilding, Editing
  <2>1. CASE call[p].op = "remove" /\ call[p].link \notin links
    <3>1. call' = [call EXCEPT ![p] = Settings!Idle] /\ cache' = now /\ jobs' = jobs
      BY <2>1 DEF Settings!Answer
    <3>2. CacheFits(cache', row, Settings!Writing')
      BY <1>3, <3>1, IdleCall
    <3>3. jobs' \in Nat /\ jobs' >= jobs
      BY <1>1, <3>1
    <3> QED BY <2>0, <3>1, <3>2, <3>3, IdleCall, CallSteps
  <2>2. CASE ~(call[p].op = "remove" /\ call[p].link \notin links)
    <3>1. PICK c : c = [call[p] EXCEPT !.at = "write", !.behind = behind,
                                       !.links = Settings!Applied(links, call[p].op, call[p].link)]
      OBVIOUS
    <3>2. Settings!Applied(links, call[p].op, call[p].link) \in SUBSET Links
      BY <1>1, AppliedLinks DEF Call
    <3>3. /\ c \in Call /\ c.at = "write" /\ c.op = call[p].op /\ c.link = call[p].link
          /\ c.behind = behind /\ c.links = Settings!Applied(links, call[p].op, call[p].link)
      BY <1>1, <3>1, <3>2 DEF Call
    <3>4. call' = [call EXCEPT ![p] = c] /\ cache' = None /\ jobs' = jobs
      BY <1>1, <1>8, <2>2, <3>1 DEF Settings!Answer, Settings!Begun, Editing
    <3>5. Ready(c, row) /\ CacheFits(cache', row, Settings!Writing')
      BY <1>8, <3>3, <3>4 DEF Ready, CacheFits
    <3>6. jobs' \in Nat /\ jobs' >= jobs
      BY <1>1, <3>4
    <3> QED BY <2>0, <3>3, <3>4, <3>5, <3>6, CallSteps
  <2> QED BY <2>1, <2>2
<1> QED BY <1>1, <1>4, <1>5, <1>6, <1>7, <1>8 DEF Call

\* The steps of a caller up to its answer.
LEMMA AskingKeeps ==
    ASSUME SettingsInv, NEW p \in Settings!Callers,
           Settings!Hit(p) \/ Settings!Miss(p) \/ Settings!Fill(p)
    PROVE  SettingsInv'
<1>1. call \in [Settings!Callers -> Call] /\ call[p] \in Call /\ jobs \in Nat /\ row \in SUBSET Links
  BY DEF SettingsInv, SettingsType
<1>2. CASE Settings!Hit(p)
  <2>1. cache \in Cached /\ Current(cache, row) /\ CacheFits(cache, row, Settings!Writing)
    BY <1>2 DEF Settings!Hit, SettingsInv, CacheFollows, CacheFits
  <2>2. cache.links \in SUBSET Links /\ cache.behind \in BOOLEAN /\ (cache.behind \/ cache.links = row)
    BY <2>1 DEF Cached, Current
  <2>3. /\ call[p].at = "ask" /\ Settings!Answer(p, cache.links, cache.behind, cache)
        /\ UNCHANGED <<row, file, meantLinks, overtaken, owed>>
    BY <1>2 DEF Settings!Hit, Settings!At, Settings!ghosts
  <2> QED BY <2>1, <2>2, <2>3, AnswerKeeps
<1>3. CASE Settings!Fill(p)
  <2>1. PICK now : now = [links |-> call[p].links, behind |-> call[p].behind, beside |-> Settings!Writing]
    OBVIOUS
  <2>2. call[p].at = "selected" /\ UNCHANGED <<row, file, meantLinks, overtaken, owed>>
        /\ Settings!Answer(p, call[p].links, call[p].behind, now)
    BY <1>3, <2>1 DEF Settings!Fill, Settings!At, Settings!ghosts
  <2>3. call[p].links \in SUBSET Links /\ call[p].behind \in BOOLEAN /\ (call[p].behind \/ call[p].links = row)
    BY <1>1, <2>2 DEF Call, SettingsInv, Ready, Current
  <2>4. CacheFits(now, row, Settings!Writing)
    BY <2>1, <2>3 DEF Cached, CacheFits, Current, Settings!Writing
  <2> QED BY <2>2, <2>3, <2>4, AnswerKeeps
<1>4. CASE Settings!Miss(p)
  <2>1. PICK c : c = [call[p] EXCEPT !.at = "selected", !.links = row, !.behind = FALSE]
    OBVIOUS
  <2>2. c \in Call /\ c.at = "selected" /\ c.op = call[p].op /\ c.links = row
    BY <1>1, <2>1 DEF Call
  <2>3. /\ call[p].at = "ask" /\ cache' = None /\ jobs' = jobs /\ call' = [call EXCEPT ![p] = c]
        /\ UNCHANGED <<row, file, meantLinks, overtaken, owed>>
    BY <1>1, <1>4, <2>1 DEF Settings!Miss, Settings!At, Settings!ghosts
  <2>4. Ready(c, row) /\ CacheFits(cache', row, Settings!Writing')
    BY <2>2, <2>3 DEF Ready, Current, CacheFits
  <2>5. p \in Settings!Rebuilds => call[p].op \in Rebuilding
    BY <2>3 DEF SettingsInv
  <2>6. jobs' \in Nat /\ jobs' >= jobs
    BY <1>1, <2>3
  <2> QED BY <2>2, <2>3, <2>4, <2>5, <2>6, CallSteps
<1> QED BY <1>2, <1>3, <1>4

\* A new request reads, or edits.
LEMMA AskKeeps ==
    ASSUME SettingsInv, NEW r \in Requests, NEW op \in {"read", "other"} \cup Editing, NEW link \in Links \cup {None},
           op \in Editing => link \in Links,
           Settings!Ask(r, op, link)
    PROVE  SettingsInv'
<1>1. PICK c : c = [Settings!Idle EXCEPT !.at = "ask", !.op = op, !.link = link]
  OBVIOUS
<1>2. c \in Call /\ c.at = "ask" /\ Ready(c, row)
  BY <1>1 DEF Call, Settings!Idle, Ready
<1>3. /\ call[r].at = "idle" /\ call' = [call EXCEPT ![r] = c]
      /\ UNCHANGED <<row, cache, jobs, file, meantLinks, overtaken, owed>>
  BY <1>1 DEF Settings!Ask, Settings!Free, Settings!At, Settings!ghosts
<1>4. r \in Settings!Callers /\ r \notin Settings!Rebuilds /\ call \in [Settings!Callers -> Call] /\ jobs \in Nat /\ jobs >= jobs
  BY RebuildsAre DEF SettingsInv, SettingsType
<1>5. CacheFits(cache', row, Settings!Writing')
  <2>1. Settings!Writing' \subseteq Settings!Writing
    BY <1>2, <1>3, <1>4, RebuildsAre DEF Settings!Writing, Settings!At
  <2> QED BY <1>3, <2>1, CacheStays DEF CacheFollows
<1> QED BY <1>2, <1>3, <1>4, <1>5, CallSteps

\* A request begins to store one file.
LEMMA RefreshKeeps ==
    ASSUME SettingsInv, NEW r \in Requests, NEW u \in Users, Settings!Refresh(r, u)
    PROVE  SettingsInv'
<1>1. PICK c : c = [Settings!Idle EXCEPT !.at = "ask", !.op = "refresh"]
  OBVIOUS
<1>2. c \in Call /\ c.at = "ask" /\ c.op = "refresh" /\ Ready(c, row)
  BY <1>1 DEF Call, Settings!Idle, Ready, Rebuilding, Editing
<1>3. /\ call[<<r, u>>].at = "idle" /\ call' = [call EXCEPT ![<<r, u>>] = c]
      /\ UNCHANGED <<row, cache, jobs, file, meantLinks, overtaken, owed>>
  BY <1>1 DEF Settings!Refresh, Settings!Free, Settings!At, Settings!ghosts
<1>4. <<r, u>> \in Settings!Callers /\ call \in [Settings!Callers -> Call] /\ jobs \in Nat /\ jobs >= jobs
  BY RebuildsAre DEF SettingsInv, SettingsType
<1>5. CacheFits(cache', row, Settings!Writing')
  <2>1. Settings!Writing' \subseteq Settings!Writing
    BY <1>2, <1>3, <1>4, RebuildsAre DEF Settings!Writing, Settings!At
  <2> QED BY <1>3, <2>1, CacheStays DEF CacheFollows
<1> QED BY <1>2, <1>3, <1>4, <1>5, CallSteps DEF Rebuilding

\* Other settings are written.
LEMMA WriteOtherKeeps ==
    ASSUME SettingsInv, NEW r \in Requests, Settings!WriteOther(r)
    PROVE  SettingsInv'
<1>1. PICK c : c = [Settings!Idle EXCEPT !.at = "ask", !.op = "read"]
  OBVIOUS
<1>2. c \in Call /\ c.at = "ask" /\ Ready(c, row)
  BY <1>1 DEF Call, Settings!Idle, Ready, Editing
<1>3. /\ call[r].at = "write" /\ call[r].op = "other" /\ call' = [call EXCEPT ![r] = c]
      /\ UNCHANGED <<row, cache, jobs, file, meantLinks, overtaken, owed>>
  BY <1>1 DEF Settings!WriteOther, Settings!At, Settings!ghosts
<1>4. r \in Settings!Callers /\ r \notin Settings!Rebuilds /\ call \in [Settings!Callers -> Call] /\ jobs \in Nat /\ jobs >= jobs
  BY RebuildsAre DEF SettingsInv, SettingsType
<1>5. CacheFits(cache', row, Settings!Writing')
  <2>1. Settings!Writing' \subseteq Settings!Writing
    BY <1>2, <1>3, <1>4, RebuildsAre DEF Settings!Writing, Settings!At
  <2> QED BY <1>3, <2>1, CacheStays DEF CacheFollows
<1> QED BY <1>2, <1>3, <1>4, <1>5, CallSteps

\* The calls that have read are behind the row then; nothing else of them
\* changes.
LEMMA LaterCalls ==
    ASSUME SettingsInv, NEW readers
    PROVE  \A q \in Settings!Callers :
             /\ Settings!Later(readers)[q] \in Call
             /\ Settings!Later(readers)[q].at = call[q].at /\ Settings!Later(readers)[q].op = call[q].op
             /\ Settings!Later(readers)[q].link = call[q].link /\ Settings!Later(readers)[q].links = call[q].links
             /\ IF q \in readers THEN Settings!Later(readers)[q].behind
                ELSE Settings!Later(readers)[q].behind = call[q].behind
<1> SUFFICES ASSUME NEW q \in Settings!Callers, NEW c, c = Settings!Later(readers)[q]
             PROVE  /\ c \in Call /\ c.at = call[q].at /\ c.op = call[q].op /\ c.link = call[q].link /\ c.links = call[q].links
                    /\ IF q \in readers THEN c.behind ELSE c.behind = call[q].behind
  OBVIOUS
<1>1. call[q] \in Call
  BY DEF SettingsInv, SettingsType
<1>2. c = IF q \in readers THEN [call[q] EXCEPT !.behind = TRUE] ELSE call[q]
  BY DEF Settings!Later
<1> QED BY <1>1, <1>2 DEF Call

\* The list goes over the row, and the rebuild of its links is still to come.
LEMMA WriteKeeps ==
    ASSUME SettingsInv, NEW r \in Requests, Settings!Write(r)
    PROVE  SettingsInv'
<1>1. /\ r \in Settings!Callers /\ r \notin Settings!Rebuilds
      /\ call[r].at = "write" /\ call[r] \in Call /\ call[r].op \in Editing
      /\ call[r].behind \/ call[r].links = Settings!Applied(row, call[r].op, call[r].link)
  BY RebuildsAre DEF Settings!Write, Settings!At, SettingsInv, SettingsType, Ready
<1>2. PICK followed : followed = IF call[r].op = "import" THEN {} ELSE Settings!QueueStoring
  OBVIOUS
<1>3. PICK c : c = [Settings!Idle EXCEPT !.at = "ask", !.op = IF call[r].op = "import" THEN "imported" ELSE "written"]
  OBVIOUS
<1>4. /\ c \in Call /\ c.at = "ask" /\ Ready(c, row')
      /\ c.op = IF call[r].op = "import" THEN "imported" ELSE "written"
  BY <1>3 DEF Call, Settings!Idle, Ready, Editing
<1>5. PICK later : later = Settings!Later(Settings!Having({"selected", "write", "store"}) \ followed)
  OBVIOUS
<1>6. \A q \in Settings!Callers :
        /\ later[q] \in Call /\ later[q].at = call[q].at /\ later[q].op = call[q].op
        /\ later[q].links = call[q].links
        /\ call[q].at \in {"selected", "write", "store"} /\ q \notin followed => later[q].behind
  BY <1>5, LaterCalls DEF Settings!Having
<1>7. /\ call' = [later EXCEPT ![r] = c] /\ later = [q \in Settings!Callers |-> later[q]]
      /\ row' = call[r].links
      /\ meantLinks' = Settings!Applied(meantLinks, call[r].op, call[r].link)
      /\ overtaken' = (overtaken \/ call[r].behind)
      /\ cache' = IF cache # None /\ r \in cache.beside THEN [cache EXCEPT !.behind = TRUE] ELSE cache
      /\ UNCHANGED <<jobs, file, owed>>
  BY <1>2, <1>3, <1>5 DEF Settings!Write, Settings!Later
<1>8. call' \in [Settings!Callers -> Call] /\ call'[r] = c /\ \A q \in Settings!Callers : q # r => call'[q] = later[q]
  BY <1>1, <1>4, <1>6, <1>7
<1>9. SettingsType'
  <2>1. row' \in SUBSET Links
    BY <1>1, <1>7 DEF Call
  <2>2. meantLinks' \in SUBSET Links
    <3>1. meantLinks \in SUBSET Links /\ call[r].link \in Links
      BY <1>1 DEF SettingsInv, SettingsType, Call
    <3> QED BY <1>7, <3>1, AppliedLinks
  <2>3. cache' = None \/ cache' \in Cached
    BY <1>7 DEF SettingsInv, SettingsType, Cached
  <2> QED BY <1>7, <1>8, <2>1, <2>2, <2>3 DEF SettingsInv, SettingsType
<1>10. CacheFollows'
  <2> SUFFICES ASSUME cache # None PROVE CacheFits(cache', row', Settings!Writing')
    BY <1>7 DEF CacheFollows, CacheFits
  <2>1. cache \in Cached /\ Settings!Writing \subseteq cache.beside /\ r \in Settings!Writing
    BY <1>1 DEF SettingsInv, CacheFollows, CacheFits, Settings!Writing, Settings!At
  <2>2. cache' = [cache EXCEPT !.behind = TRUE]
    BY <1>7, <2>1
  <2>3. cache' \in Cached /\ cache'.behind /\ cache'.beside = cache.beside
    BY <2>1, <2>2 DEF Cached
  <2>4. Settings!Writing' \subseteq Settings!Writing
    BY <1>1, <1>4, <1>6, <1>8, RebuildsAre DEF Settings!Writing, Settings!At
  <2> QED BY <2>1, <2>3, <2>4 DEF CacheFits, Current
<1>11. FilesFollow'
  <2>1. IF call[r].op = "import" THEN Importing' ELSE Queued'
    BY <1>4, <1>8 DEF Importing, Queued
  <2>2. ASSUME NEW w \in Settings!Rebuilds, call'[w].at = "store", w[1] # None \/ ~Queued'
        PROVE  call'[w].behind
    <3>1. w \notin followed
      BY <1>2, <2>1, <2>2 DEF Settings!QueueStoring
    <3>2. w \in Settings!Callers /\ w # r /\ call'[w] = later[w] /\ call[w].at = "store"
      BY <1>1, <1>6, <1>8, <2>2, RebuildsAre
    <3> QED BY <1>6, <3>1, <3>2
  <2> QED BY <2>1, <2>2 DEF FilesFollow, Current
<1>12. ASSUME NEW q \in Settings!Callers PROVE Ready(call'[q], row')
  <2>1. CASE q = r
    BY <1>4, <1>8, <2>1
  <2>2. CASE q # r
    <3>1. call[q].at \in {"selected", "write"} => q \notin followed
      BY <1>2 DEF Settings!QueueStoring, Settings!Storing, Settings!At
    <3> QED BY <1>6, <1>8, <2>2, <3>1 DEF SettingsInv, Ready, Current
  <2> QED BY <2>1, <2>2
<1>13. \A w \in Settings!Rebuilds : call'[w].at # "idle" => call'[w].op \in Rebuilding
  BY <1>1, <1>6, <1>8, RebuildsAre DEF SettingsInv
<1>14. overtaken' \/ row' = meantLinks'
  BY <1>1, <1>7 DEF SettingsInv
<1> QED BY <1>9, <1>10, <1>11, <1>12, <1>13, <1>14 DEF SettingsInv

\* A script leaves every file to be rebuilt.
LEMMA EditElsewhereKeeps ==
    ASSUME SettingsInv, NEW op \in {"add", "remove"}, NEW link \in Links, Settings!EditElsewhere(op, link)
    PROVE  SettingsInv'
<1>1. PICK later : later = Settings!Later(Settings!Having({"selected", "write", "store"}))
  OBVIOUS
<1>2. \A q \in Settings!Callers :
        /\ later[q] \in Call /\ later[q].at = call[q].at /\ later[q].op = call[q].op
        /\ call[q].at \in {"selected", "write", "store"} => later[q].behind
  BY <1>1, LaterCalls DEF Settings!Having
<1>3. /\ call' = later /\ later = [q \in Settings!Callers |-> later[q]]
      /\ row' = Settings!Applied(row, op, link) /\ meantLinks' = Settings!Applied(meantLinks, op, link)
      /\ cache' = IF cache = None THEN None ELSE [cache EXCEPT !.behind = TRUE]
      /\ owed' = Users /\ UNCHANGED <<jobs, file, overtaken>>
  BY <1>1 DEF Settings!EditElsewhere, Settings!Later
<1>4. SettingsType'
  <2>1. row' \in SUBSET Links /\ meantLinks' \in SUBSET Links
    <3>1. row \in SUBSET Links /\ meantLinks \in SUBSET Links
      BY DEF SettingsInv, SettingsType
    <3> QED BY <1>3, <3>1, AppliedLinks
  <2>2. cache' = None \/ cache' \in Cached
    BY <1>3 DEF SettingsInv, SettingsType, Cached
  <2> QED BY <1>2, <1>3, <2>1, <2>2 DEF SettingsInv, SettingsType
<1>5. CacheFollows'
  <2>1. Settings!Writing' = Settings!Writing
    BY <1>2, <1>3, RebuildsAre DEF Settings!Writing, Settings!At
  <2> QED BY <1>3, <2>1 DEF SettingsInv, Cached, CacheFollows, CacheFits, Current
<1>6. FilesFollow'
  BY <1>2, <1>3, RebuildsAre DEF FilesFollow, Current
<1>7. \A q \in Settings!Callers : Ready(call'[q], row')
  BY <1>2, <1>3 DEF SettingsInv, Ready, Current
<1>8. /\ \A w \in Settings!Rebuilds : call'[w].at # "idle" => call'[w].op \in Rebuilding
      /\ overtaken' \/ row' = meantLinks'
  BY <1>2, <1>3, RebuildsAre DEF SettingsInv
<1> QED BY <1>4, <1>5, <1>6, <1>7, <1>8 DEF SettingsInv

\* A rebuild begins when the one before has ended.
LEMMA StartKeeps == SettingsInv /\ Settings!StartJob => SettingsInv'
<1> SUFFICES ASSUME SettingsInv, Settings!StartJob PROVE SettingsInv'
  OBVIOUS
<1>1. /\ jobs > 0 /\ jobs' = jobs - 1
      /\ call' = [p \in Settings!Callers |-> IF p \in {None} \X Users THEN Settings!Rebuild ELSE call[p]]
      /\ UNCHANGED <<row, cache, file, meantLinks, overtaken, owed>>
  BY DEF Settings!StartJob, Settings!ghosts
<1>2. /\ call' \in [Settings!Callers -> Call]
      /\ \A p \in Settings!Callers : call'[p] \in {call[p], Settings!Rebuild}
  BY <1>1, IdleCall DEF SettingsInv, SettingsType
<1>3. /\ \A r \in Requests : call'[r] = call[r]
      /\ \A u \in Users : call'[<<None, u>>] = Settings!Rebuild
      /\ \A w \in Settings!Rebuilds : w[1] = None => call'[w] = Settings!Rebuild
  <2>1. \A r \in Requests : r \in Settings!Callers /\ r \notin {None} \X Users
    BY ValuesAssumption, RebuildsAre
  <2>2. \A w \in Settings!Rebuilds : w[1] = None => w \in Settings!Callers /\ w \in {None} \X Users
    BY RebuildsAre DEF Settings!Rebuilds
  <2>3. \A u \in Users : <<None, u>> \in Settings!Rebuilds /\ <<None, u>>[1] = None
    BY RebuildsAre
  <2> QED BY <1>1, <2>1, <2>2, <2>3
<1>4. SettingsType'
  BY <1>1, <1>2 DEF SettingsInv, SettingsType
<1>5. CacheFollows'
  <2>1. Settings!Writing' \subseteq Settings!Writing
    BY <1>3 DEF Settings!Writing, Settings!At
  <2> QED BY <1>1, <2>1, CacheStays
<1>6. FilesFollow'
  <2>1. ASSUME NEW u \in Users
        PROVE  UnderWay(u)'
    <3>1. PICK w \in Settings!Rebuilds : w = <<None, u>> /\ w[2] = u
      BY RebuildsAre
    <3>2. call'[w].at # "idle" /\ call'[w].op = "rebuild"
      BY <1>3, <3>1, IdleCall
    <3> QED BY <3>1, <3>2 DEF UnderWay
  <2>2. ASSUME NEW w \in Settings!Rebuilds, call'[w].at = "store"
        PROVE  Current(call'[w], row)
    <3>1. w[1] # None /\ call'[w] = call[w]
      BY <1>2, <1>3, <2>2, RebuildsAre, IdleCall
    <3> QED BY <2>2, <3>1 DEF SettingsInv, FilesFollow
  <2> QED BY <1>1, <2>1, <2>2 DEF FilesFollow
<1>7. \A q \in Settings!Callers : Ready(call'[q], row)
  BY <1>2, IdleCall DEF SettingsInv
<1>8. \A w \in Settings!Rebuilds : call'[w].at # "idle" => call'[w].op \in Rebuilding
  BY <1>2, RebuildsAre, IdleCall DEF SettingsInv, Rebuilding
<1> QED BY <1>1, <1>4, <1>5, <1>6, <1>7, <1>8 DEF SettingsInv

\* A rebuild of all that could not begin leaves every file owed.
LEMMA JobFailsKeeps == SettingsInv /\ Settings!JobFails => SettingsInv'
<1> SUFFICES ASSUME SettingsInv, Settings!JobFails PROVE SettingsInv'
  OBVIOUS
<1>1. /\ jobs > 0 /\ jobs' = jobs - 1 /\ owed' = Users
      /\ UNCHANGED <<row, cache, call, file, meantLinks, overtaken>>
      /\ \A u \in Users : call[<<None, u>>].at = "idle"
  BY DEF Settings!JobFails, Settings!Resting, Settings!At
<1>2. SettingsType'
  BY <1>1 DEF SettingsInv, SettingsType
<1>3. CacheFollows'
  BY <1>1 DEF SettingsInv, CacheFollows, Settings!Writing, Settings!At
<1>4. FilesFollow'
  <2>1. \A w \in Settings!Rebuilds : call[w].at = "store" => w[1] # None
    <3> SUFFICES ASSUME NEW w \in Settings!Rebuilds, w[1] = None PROVE call[w].at = "idle"
      OBVIOUS
    <3>1. w = <<None, w[2]>> /\ w[2] \in Users
      BY RebuildsAre DEF Settings!Rebuilds
    <3> QED BY <1>1, <3>1
  <2> QED BY <1>1, <2>1 DEF SettingsInv, FilesFollow
<1> QED BY <1>1, <1>2, <1>3, <1>4 DEF SettingsInv

\* A file is stored with the links of the row, or owed.
LEMMA StoreKeeps ==
    ASSUME SettingsInv, NEW w \in Settings!Rebuilds, Settings!StoreFile(w)
    PROVE  SettingsInv'
<1>1. PICK u \in Users : u = w[2]
  BY RebuildsAre
<1>2. /\ call[w].at = "store" /\ file' = [file EXCEPT ![u] = call[w].links]
      /\ owed' = IF call[w].behind THEN owed \cup {u} ELSE owed \ {u}
      /\ call' = [call EXCEPT ![w] = Settings!Idle]
      /\ UNCHANGED <<row, cache, jobs, meantLinks, overtaken>>
      /\ w \in Settings!Callers /\ w \notin Requests
  BY <1>1, RebuildsAre DEF Settings!StoreFile, Settings!At
<1>3. /\ call' \in [Settings!Callers -> Call] /\ call'[w] = Settings!Idle
      /\ \A q \in Settings!Callers : q # w => call'[q] = call[q]
      /\ file' \in [Users -> SUBSET Links] /\ file'[u] = call[w].links
      /\ \A v \in Users : v # u => file'[v] = file[v]
  BY <1>2, IdleCall DEF SettingsInv, SettingsType, Call
<1>4. SettingsType'
  BY <1>2, <1>3 DEF SettingsInv, SettingsType
<1>5. CacheFollows'
  <2>1. Settings!Writing' \subseteq Settings!Writing
    BY <1>2, <1>3, RebuildsAre DEF Settings!Writing, Settings!At
  <2> QED BY <1>2, <2>1, CacheStays
<1>6. FilesFollow'
  <2>1. (Queued => Queued') /\ (Importing => Importing')
    BY <1>2, <1>3, RebuildsAre DEF Queued, Importing
  <2>2. ASSUME NEW x \in Settings!Rebuilds, call'[x].at = "store", x[1] # None \/ ~Queued'
        PROVE  Current(call'[x], row)
    <3>1. x # w /\ call'[x] = call[x]
      BY <1>3, <2>2, RebuildsAre, IdleCall
    <3> QED BY <2>1, <2>2, <3>1 DEF SettingsInv, FilesFollow
  <2>3. ASSUME ~Queued', ~Importing', NEW v \in Users
        PROVE  v \in owed' \/ file'[v] = row \/ UnderWay(v)'
    <3>1. CASE v = u
      <4>1. Current(call[w], row)
        BY <1>2, <2>1, <2>3 DEF SettingsInv, FilesFollow
      <4> QED BY <1>2, <1>3, <3>1, <4>1 DEF Current
    <3>2. CASE v # u
      <4>1. v \in owed => v \in owed'
        BY <1>2, <3>2
      <4>2. UnderWay(v) => UnderWay(v)'
        BY <1>1, <1>3, <3>2, RebuildsAre DEF UnderWay
      <4> QED BY <1>3, <2>1, <2>3, <3>2, <4>1, <4>2 DEF SettingsInv, FilesFollow
    <3> QED BY <3>1, <3>2
  <2> QED BY <1>2, <2>2, <2>3 DEF FilesFollow
<1>7. \A q \in Settings!Callers : Ready(call'[q], row)
  BY <1>3, IdleCall DEF SettingsInv
<1>8. \A x \in Settings!Rebuilds : call'[x].at # "idle" => call'[x].op \in Rebuilding
  BY <1>3, RebuildsAre, IdleCall DEF SettingsInv
<1> QED BY <1>2, <1>4, <1>5, <1>6, <1>7, <1>8 DEF SettingsInv

\* What a failing call leaves to be rebuilt is owed.
LEMMA FailKeeps ==
    ASSUME SettingsInv, NEW p \in Settings!Callers, Settings!Fail(p)
    PROVE  SettingsInv'
<1>1. PICK later : later = IF call[p].op = "written" THEN Settings!Later(Settings!QueueStoring) ELSE call
  OBVIOUS
<1>2. \A q \in Settings!Callers :
        /\ later[q] \in Call /\ later[q].at = call[q].at /\ later[q].op = call[q].op
        /\ later[q].link = call[q].link /\ later[q].links = call[q].links
        /\ IF q \in Settings!QueueStoring /\ call[p].op = "written" THEN later[q].behind
           ELSE later[q].behind = call[q].behind
  <2>1. CASE call[p].op = "written"
    BY <1>1, <2>1, LaterCalls
  <2>2. CASE call[p].op # "written"
    BY <1>1, <2>2 DEF SettingsInv, SettingsType
  <2> QED BY <2>1, <2>2
<1>3. /\ call' = [later EXCEPT ![p] = Settings!Idle] /\ later = [q \in Settings!Callers |-> later[q]]
      /\ call[p].at # "idle"
      /\ UNCHANGED <<row, cache, jobs, file, meantLinks, overtaken>>
  <2>1. later = [q \in Settings!Callers |-> later[q]]
    BY <1>1 DEF Settings!Later, SettingsInv, SettingsType
  <2> QED BY <1>1, <2>1 DEF Settings!Fail
<1>4. /\ p \in Settings!Rebuilds /\ call[p].op = "rebuild" => owed' = owed \cup {p[2]}
      /\ p \in Requests /\ call[p].op \in {"written", "imported"} => owed' = Users
      /\ owed' \in {owed, Users, owed \cup {p[2]}}
  BY RebuildsAre, <1>3 DEF Settings!Fail, Settings!Unanswered, Settings!At
<1>5. /\ call' \in [Settings!Callers -> Call] /\ call'[p] = Settings!Idle
      /\ \A q \in Settings!Callers : q # p => call'[q] = later[q]
  BY <1>2, <1>3, IdleCall
<1>6. SettingsType'
  BY <1>3, <1>5 DEF SettingsInv, SettingsType
<1>7. CacheFollows'
  <2>1. Settings!Writing' \subseteq Settings!Writing
    BY <1>2, <1>3, <1>5, RebuildsAre, IdleCall DEF Settings!Writing, Settings!At
  <2> QED BY <1>3, <2>1, CacheStays
<1>8. call[p].op \in {"written", "imported"} => p \in Requests
  BY <1>3, RebuildsAre DEF SettingsInv, Rebuilding
<1>9. call[p].op # "written" => (Queued => Queued')
  BY <1>2, <1>3, <1>5, RebuildsAre DEF Queued
<1>10. call[p].op # "imported" => (Importing => Importing')
  BY <1>2, <1>3, <1>5, RebuildsAre DEF Importing
<1>11. FilesFollow'
  <2>1. ASSUME NEW w \in Settings!Rebuilds, call'[w].at = "store", w[1] # None \/ ~Queued'
        PROVE  Current(call'[w], row)
    <3>1. w \in Settings!Callers /\ w # p /\ call'[w] = later[w] /\ call[w].at = "store"
      BY <1>2, <1>5, <2>1, RebuildsAre, IdleCall
    <3>2. CASE w[1] = None /\ call[p].op = "written"
      BY <1>2, <3>1, <3>2 DEF Settings!QueueStoring, Settings!Storing, Settings!At, Current
    <3>3. CASE w[1] # None \/ call[p].op # "written"
      <4>1. Current(call[w], row)
        BY <1>9, <2>1, <3>1, <3>3 DEF SettingsInv, FilesFollow
      <4> QED BY <1>2, <3>1, <4>1 DEF Current
    <3> QED BY <3>2, <3>3
  <2>2. ASSUME ~Queued', ~Importing', NEW u \in Users
        PROVE  u \in owed' \/ file[u] = row \/ UnderWay(u)'
    <3>1. CASE call[p].op \in {"written", "imported"}
      BY <1>4, <1>8, <3>1
    <3>2. CASE call[p].op \notin {"written", "imported"}
      <4>1. u \in owed \/ file[u] = row \/ UnderWay(u)
        BY <1>9, <1>10, <2>2, <3>2 DEF SettingsInv, FilesFollow
      <4>2. CASE UnderWay(u)
        <5>1. PICK w \in Settings!Rebuilds : w[2] = u /\ call[w].at # "idle" /\ call[w].op = "rebuild"
          BY <4>2 DEF UnderWay
        <5>2. CASE w = p
          BY <1>4, <5>1, <5>2
        <5>3. CASE w # p
          <6>1. call'[w].at # "idle" /\ call'[w].op = "rebuild"
            BY <1>2, <1>5, <5>1, <5>3, RebuildsAre
          <6> QED BY <5>1, <6>1 DEF UnderWay
        <5> QED BY <5>2, <5>3
      <4>3. CASE u \in owed
        BY <1>4, <4>3
      <4> QED BY <4>1, <4>2, <4>3
    <3> QED BY <3>1, <3>2
  <2> QED BY <1>3, <2>1, <2>2 DEF FilesFollow
<1>12. ASSUME NEW q \in Settings!Callers PROVE Ready(call'[q], row)
  <2>1. CASE q = p
    BY <1>5, <2>1, IdleCall
  <2>2. CASE q # p
    <3>1. q \in Settings!QueueStoring => call[q].at = "store"
      BY DEF Settings!QueueStoring, Settings!Storing, Settings!At
    <3> QED BY <1>2, <1>5, <2>2, <3>1 DEF SettingsInv, Ready, Current
  <2> QED BY <2>1, <2>2
<1>13. \A w \in Settings!Rebuilds : call'[w].at # "idle" => call'[w].op \in Rebuilding
  BY <1>2, <1>5, RebuildsAre, IdleCall DEF SettingsInv
<1> QED BY <1>3, <1>6, <1>7, <1>11, <1>12, <1>13 DEF SettingsInv

\* A restart leaves to be rebuilt what was queued, or not yet stored.
LEMMA RestartKeeps == SettingsInv /\ Settings!Restart => SettingsInv'
<1> SUFFICES ASSUME SettingsInv, Settings!Restart PROVE SettingsInv'
  OBVIOUS
<1>1. /\ owed' = IF jobs > 0 \/ \E r \in Requests : Settings!Unanswered(r) THEN Users ELSE owed \cup Settings!Rebuilt
      /\ call' = [p \in Settings!Callers |-> Settings!Idle]
      /\ cache' = None /\ jobs' = 0
      /\ UNCHANGED <<row, file, meantLinks, overtaken>>
  BY DEF Settings!Restart
<1>2. SettingsType' /\ CacheFollows'
  BY <1>1, IdleCall DEF SettingsInv, SettingsType, CacheFollows, CacheFits
<1>3. FilesFollow'
  <2>1. Queued \/ Importing => owed' = Users
    BY <1>1 DEF Queued, Importing, Settings!Unanswered, Settings!At
  <2>2. \A u \in Users : UnderWay(u) => u \in owed'
    BY <1>1 DEF UnderWay, Settings!Rebuilt, Settings!At
  <2>3. \A u \in Users : u \in owed => u \in owed'
    BY <1>1
  <2>4. \A w \in Settings!Rebuilds : call'[w].at = "idle"
    BY <1>1, RebuildsAre, IdleCall
  <2> QED BY <1>1, <2>1, <2>2, <2>3, <2>4 DEF SettingsInv, FilesFollow
<1>4. /\ \A q \in Settings!Callers : Ready(call'[q], row)
      /\ \A w \in Settings!Rebuilds : call'[w].at # "idle" => call'[w].op \in Rebuilding
  BY <1>1, RebuildsAre, IdleCall
<1> QED BY <1>1, <1>2, <1>3, <1>4 DEF SettingsInv

\* The cache may expire at any time.
LEMMA ExpireKeeps == SettingsInv /\ (Settings!Expire \/ UNCHANGED Settings!vars) => SettingsInv'
<1> SUFFICES ASSUME SettingsInv, Settings!Expire \/ UNCHANGED Settings!vars PROVE SettingsInv'
  OBVIOUS
<1>1. cache' \in {cache, None} /\ UNCHANGED <<row, call, jobs, file, meantLinks, overtaken, owed>>
  BY DEF Settings!Expire, Settings!vars, Settings!ghosts
<1> QED BY <1>1 DEF SettingsInv, SettingsType, CacheFollows, CacheFits, FilesFollow, Queued, Importing, UnderWay,
                    Settings!Writing, Settings!At

\* Once nothing is queued or under way, every file that is not owed carries
\* the links of the database, which are those the edits meant.
THEOREM LinksArrive == Settings!Spec => []LinksReachFiles
<1>1. Settings!Init => SettingsInv
  <2> SUFFICES ASSUME Settings!Init PROVE SettingsInv
    OBVIOUS
  <2>1. \A p \in Settings!Callers : call[p] = Settings!Idle
    BY DEF Settings!Init
  <2>2. SettingsType /\ CacheFollows
    BY IdleCall DEF Settings!Init, SettingsType, CacheFollows, CacheFits
  <2>3. FilesFollow
    BY <2>1, RebuildsAre, IdleCall DEF Settings!Init, FilesFollow
  <2> QED BY <2>1, <2>2, <2>3, RebuildsAre, IdleCall DEF Settings!Init, SettingsInv
<1>2. SettingsInv /\ [Settings!Next]_(Settings!vars) => SettingsInv'
  <2> SUFFICES ASSUME SettingsInv, [Settings!Next]_(Settings!vars) PROVE SettingsInv'
    OBVIOUS
  <2>1. ASSUME NEW r \in Requests, Settings!Ask(r, "read", None) \/ Settings!Ask(r, "other", None)
        PROVE  SettingsInv'
    BY <2>1, AskKeeps DEF Editing
  <2>2. ASSUME NEW r \in Requests, NEW op \in Editing, NEW link \in Links, Settings!Ask(r, op, link)
        PROVE  SettingsInv'
    BY <2>2, AskKeeps
  <2> QED BY <2>1, <2>2, RefreshKeeps, AskingKeeps, WriteOtherKeeps, WriteKeeps, EditElsewhereKeeps, StartKeeps,
             JobFailsKeeps, StoreKeeps, FailKeeps, RestartKeeps, ExpireKeeps
          DEF Settings!Next, Editing
<1>3. SettingsInv => LinksReachFiles
  <2> SUFFICES ASSUME SettingsInv, Settings!Quiet
               PROVE  (overtaken \/ row = meantLinks) /\ \A u \in Users \ owed : file[u] = row
    BY DEF LinksReachFiles, Settings!LinksReachFiles
  <2>1. ~Queued /\ ~Importing /\ \A u \in Users : ~UnderWay(u)
    BY RebuildsAre DEF Settings!Quiet, Settings!At, Queued, Importing, UnderWay
  <2> QED BY <2>1 DEF SettingsInv, FilesFollow
<1> QED BY <1>1, <1>2, <1>3, PTL DEF Settings!Spec
=============================================================================
