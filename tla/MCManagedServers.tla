-------------------------- MODULE MCManagedServers --------------------------
(***************************************************************************)
(* ManagedServers and the maintenance scripts for TLC.  They share no      *)
(* state, and the tunnels and the keys of a server share only its row:     *)
(* `part' says which of them moves, the others stay in an initial state.   *)
(* Requests, and configurations, are interchangeable.                      *)
(***************************************************************************)
EXTENDS ManagedServers, MaintenanceScripts, Sequences, TLC

CONSTANTS
    n1,                  \* one of the new servers
    Clients, vip,        \* clients, and the one on whom scripts try servers out
    Worlds,              \* clients and rows there may be at first
    MaxEvents, MaxRuns

VARIABLES
    part,
    script, apply, mode, phase, left, item, at, user, row, file, panel,
    seen, prev, bodies, listed, applied, saved, failing, kept, spoilt,
    origin, events, runs

Live(f) == [on |-> TRUE, fields |-> f]
Off == [on |-> FALSE, fields |-> "old"]
Holds(list) == [list |-> list, own |-> "old"]
World(a, b, n, m, o) ==
    [user |-> [c \in Clients |-> IF c = vip THEN a ELSE b],
     row |-> [s \in Servers |->
                 CASE s = n1 -> n
                   [] s \in News \ {n1} -> m
                   [] s \in Olds -> o
                   [] s \in Others -> Live("old")]]

\* Before anything is given out, after the scripts have run, and between;
\* rows that are missing or disabled, clients that hold them all the same.
Fresh == World(Holds(Olds \cup Others), Holds(Olds \cup Others), None, None, Live("old"))
MCWorlds == {
    Fresh,
    World(Holds({n1} \cup Others), Holds(Olds \cup Others), Live("old"), Live("old"), Live("old")),
    World(Holds({n1} \cup Others), Holds(News), Live("new"), Live("new"), None),
    World(Holds(Olds \cup Others), Holds(Olds), Live("old"), None, Off),
    World(Holds({n1} \cup Olds \cup Others), Holds(Olds), Live("new"), Live("new"), Live("old")),
    World(Holds({n1} \cup Others), Holds({n1} \cup Others), Off, Live("old"), Live("old")),
    World(Holds(News \cup Others), Holds(News), Live("old"), Live("old"), Live("old")),
    World(None, Holds({n1} \cup Others), Live("old"), Live("old"), Live("old"))}

Fleet == INSTANCE Maintenance WITH
             Users <- Clients, Vip <- vip

fleetVars == <<script, apply, mode, phase, left, item, at, user, row, file, panel, seen, prev,
               bodies, listed, applied, saved, failing, kept, spoilt, origin, events, runs>>

-----------------------------------------------------------------------------
(* What the proofs use of the clients, the servers and the table of scripts. *)
(* The last are facts about each entry, whatever servers there are.          *)

ASSUME ClientsAssumption ==
    n1 \in News /\ None \notin Clients \cup Servers /\ None \notin Fleet!Doc

ASSUME WorldsAssumption ==
    \A w \in Worlds : /\ w.user \in [Clients -> Fleet!Doc \cup {None}]
                      /\ w.row \in [Servers -> Fleet!Row \cup {None}]

ASSUME LoopsAssumption ==
    \A name \in DOMAIN Scripts : IsScript(Scripts[name])

\* A script with a backup writes no lists, or backs them up first; and so for
\* servers.
ASSUME BackupsComeFirst ==
    \A name \in DOMAIN Scripts : LET t == Scripts[name] IN Does(Course(t), Backups) =>
        /\ name \notin Fleet!ListsUnkept =>
             /\ Never(t, {"backupOver"})
             /\ \/ Never(t, ListWrites)
                \/ \E b \in ListBackups, p, q \in Places(t.before) :
                      KeepsFirst(t, p, q, "users", b, ListWrites \cup Notes)
        /\ name \notin Fleet!RowsUnkept =>
             /\ Never(t, {"backupOver"})
             /\ \/ Never(t, RowWrites)
                \/ \E b \in RowBackups, p, q \in Places(t.before) :
                      KeepsFirst(t, p, q, "servers", b, RowWrites)

ASSUME ListsAreUndone ==
    \A name \in DOMAIN Scripts \ Fleet!NotesLate : UndoesLists(Scripts[name])

ASSUME RowsAreUndone ==
    \A name \in DOMAIN Scripts \ Fleet!KeepsRows :
        UndoesRows(Scripts[name], name \in Fleet!SavesTogether)

\* Lists and files come in an order that leaves each client with what is
\* wanted: for FilesFollow see Fleet!OkIsComplete and its exceptions.
ASSUME ListsAndFilesFollow ==
    \A name \in DOMAIN Scripts : LET t == Scripts[name] IN
        Does(Course(t), {"list"} \cup FileWrites) \/ Does(t.undo, {"listBack"}) =>
            \E p \in Places(t.before) :
                /\ ReadsFirst(t, p) /\ KeepsSelection(t, p)
                /\ name \in Fleet!SkipsChanged => ReadOnce(t, p)
                /\ Does(Course(t), FileWrites) /\ name # "FixOldClients" =>
                      /\ FilesAreMade(t, p)
                      /\ \A v \in BOOLEAN : v \/ t.who # "vip" =>
                            FilesFollow(t, p, v, name \in Fleet!SkipsChanged, name \in Fleet!SettingsLast)

-----------------------------------------------------------------------------

Moves(p) == part = p /\ UNCHANGED part

MCInit ==
    /\ part \in {"tunnels", "keys", "scripts"}
    /\ Init /\ Fleet!Init
    /\ part # "scripts" => script = "ClearHosts" /\ apply /\ origin = Fresh

MCNext ==
    \/ Moves("tunnels") /\ Next /\ UNCHANGED <<outline, fleetVars>>
    \/ Moves("keys") /\ Next /\ (\A r \in Requests : req'[r].tunnel = None) /\ UNCHANGED fleetVars
    \/ Moves("scripts") /\ Fleet!Next /\ UNCHANGED vars

MCSpec == MCInit /\ [][MCNext]_<<part, vars, fleetVars>>

Symmetry == Permutations(Requests) \cup Permutations(Configs)

-----------------------------------------------------------------------------

\* What a script with a backup has changed, of clients and of servers, can be
\* put back from its backup files, however often it was killed and run again
\* (Maintenance, which names the scripts of which that is not so).
BackupsHoldChanges == part = "scripts" => Fleet!BackupsHoldChanges

\* A script that says ok has done its work also where an earlier run was cut
\* short, and the files show it (Maintenance).
OkIsComplete == part = "scripts" => Fleet!OkIsComplete

\* A script that has undone its work has left lists and servers as it found
\* them (Maintenance).
UndoneIsAsBefore == part = "scripts" => Fleet!UndoneIsAsBefore
=============================================================================
