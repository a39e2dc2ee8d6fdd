---------------------------- MODULE Maintenance ----------------------------
(***************************************************************************)
(* The maintenance scripts under scripts/ that change servers, what the    *)
(* clients hold and their subscription files, one step of a script at a    *)
(* time: see MaintenanceScripts for what each script does.  A step may     *)
(* throw, a script may be killed, and who ran it runs it again.            *)
(*                                                                         *)
(* A client's bonusServerIds, pinnedServerIds and serverIds are one set;   *)
(* `own' stands for whatever else of a client a script writes (addresses,  *)
(* extra lines, Happ settings), `panel' for the panel settings it writes.  *)
(* `fields' of a server are those that its documents before and after the  *)
(* script both have: a field only the new one has stays when the old one   *)
(* is written back, since upsertServer merges.  A statement that throws    *)
(* has had no effect, and the panel leaves the scripts alone.  Rollout has *)
(* the other cases of both.                                                *)
(***************************************************************************)
EXTENDS Naturals, Sequences

CONSTANTS
    Scripts,     \* what each script does: that of MaintenanceScripts
    News, Olds, Others,   \* servers, as there
    Users,
    Vip,         \* of them, the one client on whom scripts try servers out
    Worlds,      \* users and rows there may be at first
    MaxEvents,   \* bound on throws and kills
    MaxRuns,     \* bound on how often a script is run
    None

Servers == News \cup Olds \cup Others

VARIABLES
    script, apply,     \* the script that is run, and with --apply?
    mode,              \* what it is doing, or how it ended
    phase, left, item, at,   \* loop, items left, the item begun, statement
    user, row, file, panel,  \* the database and the files
    seen, prev, bodies,      \* users and servers it listed, bodies it built
    listed,            \* the users it listed again
    applied, saved,    \* users and servers it notes as changed
    failing,           \* has a check or a caught call failed?
    kept,              \* whose first state is in a backup file
    spoilt,            \* has a part of the undoing failed?
    origin,            \* users and rows before the first run
    events, runs

control == <<mode, phase, left, item, at>>
world == <<user, row, file, panel>>
reads == <<seen, prev, bodies, listed>>
notes == <<applied, saved, failing, kept, spoilt>>
constant == <<script, apply, origin>>
bounds == <<events, runs>>
vars == <<control, world, reads, notes, constant, bounds>>

-----------------------------------------------------------------------------
(* What there is *)

Row == [on : BOOLEAN, fields : {"old", "new"}]
Doc == [list : SUBSET Servers, own : {"old", "new"}]
Known(us) == {u \in Users : us[u] # None}

S == Scripts[script]

\* buildUserSubscriptionBody of a client, with the servers as they are.
Body(doc) ==
    [lines |-> {<<i, row[i].fields>> : i \in {j \in doc.list : row[j] # None /\ row[j].on}},
     own |-> doc.own, panel |-> panel]

\* What the script makes of a client.
On(i) == prev[i] # None /\ prev[i].on
Off(i) == prev[i] # None /\ ~prev[i].on
Change(u) == IF u = Vip THEN S.vip ELSE S.rest
Adds(u) == IF S.pick = "on" THEN {i \in Change(u).adds : On(i)} ELSE Change(u).adds
Drops(u) == IF S.pick = "off" THEN {i \in Change(u).drops : Off(i)} ELSE Change(u).drops
After(u, doc) ==
    [list |-> (doc.list \ Drops(u)) \cup Adds(u),
     own |-> IF S.own THEN "new" ELSE doc.own]

\* The lines it looks for in a body, and those that must be gone.
Good(u, body) ==
    /\ \A i \in Change(u).adds : \E line \in body.lines : line[1] = i
    /\ \A line \in body.lines :
          /\ line[1] \notin Change(u).drops
          /\ line[1] \in News => line[2] = "new"
    /\ S.own => body.own = "new"

\* Whoever has one of the new servers has all their lines, as they are now.
LineIds(body) == {line[1] : line \in body.lines}
ShowsNew(u) ==
    seen[u].list \cap News # {} =>
        \A n \in News : <<n, "new">> \in Body(seen[u]).lines

Selected(us) ==
    CASE S.who = "all" -> Known(us)
      [] S.who = "vip" -> Known(us) \cap {Vip}
      [] S.who = "affected" -> {u \in Known(us) : us[u].list \cap News # {}}
      [] S.who = "holders" -> {u \in Known(us) : us[u].list \cap Olds # {}}
      [] S.who = "empty" -> {u \in Known(us) : Body(us[u]).lines = {}}

\* The items a loop goes through.
Items(over) ==
    CASE over = "once" -> {None}
      [] over \in {"users", "caught"} -> Selected(seen)
      [] over = "changed" -> {u \in Selected(seen) : After(u, seen[u]) # seen[u]}
      [] over = "relisted" -> Selected(listed)
      [] over = "vip" -> Known(seen) \cap {Vip}
      [] over = "applied" -> applied
      [] over = "saved" -> saved
      [] over = "savedAll" -> IF News \subseteq saved THEN News ELSE {}
      [] over = "new" -> News
      [] over = "newOn" -> {n \in News : On(n)}
      [] over = "old" -> Olds
      [] over = "rest" -> Servers \ News

-----------------------------------------------------------------------------
(* The course of a script *)

Running == {"run", "undo", "back"}
Plan ==
    CASE mode = "run" -> S.before \o S.try \o S.after
      [] mode = "undo" -> S.undo
      [] mode = "back" -> S.back
Over == Head(Plan[phase])
Do == Tail(Plan[phase])
Trying == mode = "run" /\ phase \in Len(S.before) + 1 .. Len(S.before) + Len(S.try)

\* Statement s is next, for item i.
Now(s, i) ==
    /\ mode \in Running
    /\ i \in left /\ item \in {None, i}
    /\ Do[at] = s

Advance(i) ==
    /\ IF at = Len(Do)
       THEN left' = left \ {i} /\ item' = None /\ at' = 1
       ELSE left' = left /\ item' = i /\ at' = at + 1
    /\ UNCHANGED <<mode, phase>>

Leave(m) == mode' = m /\ phase' = 0 /\ left' = {} /\ item' = None /\ at' = 1

Enter ==
    /\ mode \in Running /\ left = {}
    /\ IF phase = Len(Plan)
       THEN Leave(CASE mode = "run" -> "ok" [] mode = "undo" -> "undone" [] mode = "back" -> "dry")
       ELSE /\ phase' = phase + 1
            /\ left' = Items(Head(Plan[phase + 1]))
            /\ UNCHANGED <<mode, item, at>>
    /\ UNCHANGED <<world, reads, notes, constant, bounds>>

\* An exception: to the catch around it, if there is one.
Raise(i) ==
    /\ IF \/ mode = "undo" /\ ~S.hardUndo
          \/ mode = "back" /\ Do[at] = "notePreview" THEN
           Advance(i) /\ spoilt' = TRUE /\ UNCHANGED failing
       ELSE IF mode = "run" /\ (Over = "caught" \/ Do[at] \in {"sync", "fileOrNote"}) THEN
           /\ left' = left \ {i} /\ item' = None /\ at' = 1
           /\ failing' = TRUE
           /\ UNCHANGED <<mode, phase, spoilt>>
       ELSE /\ Leave(IF Trying /\ S.undo # <<>> THEN "undo" ELSE "failed")
            /\ UNCHANGED <<spoilt, failing>>
    /\ UNCHANGED <<applied, saved, kept>>

\* Statements that only look at what the script holds already.
Sure == {"dry", "dryOrFailing", "note", "noteChanged", "needVip", "onlyVip", "someOn",
         "holdsOthers", "holdsNew", "checkLists", "notFailing"}

Throw(i) ==
    /\ events < MaxEvents
    /\ mode \in Running /\ left # {} /\ Do[at] \notin Sure
    /\ Now(Do[at], i)
    /\ Raise(i)
    /\ events' = events + 1
    /\ UNCHANGED <<world, reads, constant, runs>>

Kill ==
    /\ mode \in Running /\ events < MaxEvents
    /\ Leave("killed")
    /\ events' = events + 1
    /\ UNCHANGED <<world, reads, notes, constant, runs>>

\* It is run again: only the backup files are left of the first run.
Again ==
    /\ mode \in {"killed", "failed", "undone"} /\ runs < MaxRuns
    /\ Leave("run")
    /\ runs' = runs + 1
    /\ seen' = None /\ prev' = None /\ bodies' = None /\ listed' = None
    /\ applied' = {} /\ saved' = {} /\ failing' = FALSE /\ spoilt' = FALSE
    /\ UNCHANGED <<world, kept, constant, events>>

-----------------------------------------------------------------------------
(* Statements that read and decide *)

Users_(i) ==
    /\ Now("users", i) /\ Advance(i)
    /\ seen' = user
    /\ UNCHANGED <<prev, bodies, listed, world, notes, constant, bounds>>

Servers_(i) ==
    /\ Now("servers", i) /\ Advance(i)
    /\ prev' = row
    /\ UNCHANGED <<seen, bodies, listed, world, notes, constant, bounds>>

Bodies(i) ==
    /\ Now("bodies", i) /\ Advance(i)
    /\ bodies' = [u \in Known(seen) |-> Body(seen[u])]
    /\ UNCHANGED <<seen, prev, listed, world, notes, constant, bounds>>

Relist(i) ==
    /\ Now("relist", i) /\ Advance(i)
    /\ listed' = user
    /\ UNCHANGED <<seen, prev, bodies, world, notes, constant, bounds>>

\* Without --apply, or after a failed check, it goes no further.
Dry(i) ==
    /\ \/ Now("dry", i) /\ IF apply THEN Advance(i) ELSE Leave("back")
       \/ Now("dryOrFailing", i) /\ IF apply /\ ~failing THEN Advance(i) ELSE Leave("back")
    /\ UNCHANGED <<world, reads, notes, constant, bounds>>

\* Backup files are named by the time, but for one of a fixed name, which
\* the next run writes over.
KeptLast(more) == more
KeptAfter(more) == kept \cup more
FirstLists == {u \in Known(seen) : seen[u] = origin.user[u]}
FirstRows == {s \in Servers : prev[s] = origin.row[s]}

\* It holds the clients as they were read, the servers, or both.
Backup(i) ==
    /\ \/ Now("backup", i) /\ kept' = KeptAfter(FirstLists)
       \/ Now("backupRows", i) /\ kept' = KeptAfter(FirstRows)
       \/ Now("backupAll", i) /\ kept' = KeptAfter(FirstLists \cup FirstRows)
       \/ Now("backupOver", i) /\ kept' = FirstRows
       \/ Now("backupPanel", i) /\ UNCHANGED kept
    /\ Advance(i)
    /\ UNCHANGED <<applied, saved, failing, spoilt, world, reads, constant, bounds>>

\* What a script demands before it goes on.
Demand(s, i) ==
    CASE s = "needNew" -> \A n \in News : row[n] # None
      [] s = "needOld" -> \A o \in Olds : row[o] # None
      [] s = "needNewOn" -> \A n \in News : row[n] # None /\ row[n].on
      [] s = "needOldOn" -> \A o \in Olds : row[o] # None /\ row[o].on
      [] s = "needVip" -> seen[Vip] # None
      [] s = "onlyVip" -> \A u \in Known(seen) \ {Vip} : News \cap seen[u].list = {}
      [] s = "needItem" -> row[i] # None
      [] s = "someOn" -> \E n \in News : On(n)
      [] s = "noneOff" -> \A o \in Olds : row[o] = None \/ row[o].on
      [] s = "holdsOthers" -> Others \subseteq seen[Vip].list
      [] s = "holdsNew" -> seen[Vip].list \cap News # {}
      [] s = "nonEmpty" -> \A u \in Selected(seen) : Body(After(u, seen[u])).lines # {}
      [] s \in {"preview", "check"} -> \A u \in Selected(seen) : Good(u, Body(After(u, seen[u])))
      [] s = "shown" -> \A u \in Known(seen) : ShowsNew(u)
      [] s = "sameLines" -> \A u \in Known(seen) : LineIds(Body(user[u])) = LineIds(bodies[u])
      [] s = "sameBodies" -> \A u \in Known(seen) : Body(user[u]) = bodies[u]
      [] s = "checkListed" -> \A u \in Selected(listed) : Good(u, Body(listed[u]))
      [] s = "checkFile" -> \A u \in Selected(seen) : Good(u, file[u])
      [] s = "checkVipFile" -> Good(Vip, file[Vip])
      [] s = "checkOthers" -> \A u \in Known(seen) \ {Vip} : Body(user[u]) = bodies[u]
      [] s = "checkLists" -> \A u \in Selected(seen) : listed[u] = After(u, seen[u])
      [] s = "notFailing" -> ~failing
Demands == {"needNew", "needOld", "needNewOn", "needOldOn", "needVip", "onlyVip", "needItem",
            "someOn", "noneOff", "holdsOthers", "holdsNew", "nonEmpty", "preview", "check",
            "shown", "sameLines", "sameBodies",
            "checkListed", "checkFile", "checkVipFile", "checkOthers", "checkLists", "notFailing"}

Check(i) ==
    /\ \E s \in Demands :
          /\ Now(s, i)
          /\ IF Demand(s, i)
             THEN Advance(i) /\ UNCHANGED notes
             ELSE Raise(i)
    /\ UNCHANGED <<world, reads, constant, bounds>>

\* Another program or service is called; scripts that go on when it fails
\* are without this statement.
Call(i) ==
    /\ Now("call", i) /\ Advance(i)
    /\ UNCHANGED <<world, reads, notes, constant, bounds>>

\* A check whose outcome is only noted.
Note(i) ==
    /\ \/ Now("notePreview", i) /\ failing' = (failing \/ ~Demand("preview", i))
       \/ Now("noteShown", i) /\ failing' = (failing \/ ~Demand("shown", i))
    /\ Advance(i)
    /\ UNCHANGED <<applied, saved, kept, spoilt, world, reads, constant, bounds>>

NoteApplied(i) ==
    /\ \/ Now("note", i) /\ applied' = applied \cup {i}
       \/ /\ Now("noteChanged", i)
          /\ applied' = IF After(i, seen[i]) # seen[i] THEN applied \cup {i} ELSE applied
    /\ Advance(i)
    /\ UNCHANGED <<saved, failing, kept, spoilt, world, reads, constant, bounds>>

-----------------------------------------------------------------------------
(* Statements that write *)

\* What undoing makes of a server: the row that was there, or none.
UndoneIfThere(i) == IF prev[i] = None THEN row[i] ELSE prev[i]
Undone(i) == prev[i]

\* upsertServer of a whole document, of some of its fields, of enabled: false;
\* updateServer does nothing without a row, deleteServer removes it.
RowAfter(s, i) ==
    CASE s = "save" -> [on |-> TRUE, fields |-> "new"]
      [] s = "tune" -> IF row[i] = None THEN None ELSE [row[i] EXCEPT !.fields = "new"]
      [] s = "retire" -> IF row[i] = None THEN None ELSE [row[i] EXCEPT !.on = FALSE]
      [] s = "enable" -> IF row[i] = None THEN None ELSE [row[i] EXCEPT !.on = TRUE]
      [] s = "delete" -> None
      [] s = "deleteOff" -> IF prev[i] # None /\ ~prev[i].on THEN None ELSE row[i]
      [] s = "rowBack" -> Undone(i)
      [] s = "rowKept" -> UndoneIfThere(i)
      [] s = "rowOff" -> [on |-> FALSE, fields |-> "new"]
RowWrites == {"save", "tune", "retire", "enable", "delete", "deleteOff",
              "rowBack", "rowKept", "rowOff"}

WriteRow(i) ==
    /\ \E s \in RowWrites :
          /\ Now(s, i)
          /\ row' = [row EXCEPT ![i] = RowAfter(s, i)]
          /\ saved' = IF mode = "run" THEN saved \cup {i} ELSE saved
    /\ Advance(i)
    /\ UNCHANGED <<user, file, panel, reads, applied, failing, kept, spoilt, constant, bounds>>

\* updateUser, of what the script wants or of what it read.
WriteUser(i) ==
    /\ \/ Now("list", i) /\ user' = [user EXCEPT ![i] = After(i, seen[i])]
       \/ Now("listBack", i) /\ user' = [user EXCEPT ![i] = seen[i]]
    /\ Advance(i)
    /\ UNCHANGED <<row, file, panel, reads, notes, constant, bounds>>

\* The client a file is made for is the one just written, not the one read.
AsRead(u) == seen[u]
AsWritten(u) == After(u, seen[u])

\* upsertUserSubscriptionFile, for the client as wanted, as listed again or
\* loaded, or as read first.
WriteFile(i) ==
    /\ \/ /\ Now("file", i) \/ Now("fileOrNote", i)
          /\ file' = [file EXCEPT ![i] = Body(AsWritten(i))]
       \/ Now("refile", i) /\ file' = [file EXCEPT ![i] = Body(listed[i])]
       \/ Now("sync", i) /\ file' = [file EXCEPT ![i] = Body(user[i])]
       \/ Now("fileBack", i) /\ file' = [file EXCEPT ![i] = Body(seen[i])]
    /\ Advance(i)
    /\ UNCHANGED <<user, row, panel, reads, notes, constant, bounds>>

WritePanel(i) ==
    /\ \/ Now("panel", i) /\ panel' = "new"
       \/ Now("panelBack", i) /\ panel' = "old"
    /\ Advance(i)
    /\ UNCHANGED <<user, row, file, reads, notes, constant, bounds>>

-----------------------------------------------------------------------------

Init ==
    /\ script \in DOMAIN Scripts /\ apply \in BOOLEAN
    /\ mode = "run" /\ phase = 0 /\ left = {} /\ item = None /\ at = 1
    /\ \E w \in Worlds : user = w.user /\ row = w.row
    /\ panel = "old"
    /\ file = [u \in Users |-> IF user[u] = None THEN None ELSE Body(user[u])]
    /\ seen = None /\ prev = None /\ bodies = None /\ listed = None
    /\ applied = {} /\ saved = {} /\ failing = FALSE /\ kept = {} /\ spoilt = FALSE
    /\ origin = [user |-> user, row |-> row]
    /\ events = 0 /\ runs = 1

Statement(i) ==
    \/ Users_(i) \/ Servers_(i) \/ Bodies(i) \/ Relist(i) \/ Dry(i) \/ Backup(i)
    \/ Check(i) \/ Call(i) \/ Note(i) \/ NoteApplied(i)
    \/ WriteRow(i) \/ WriteUser(i) \/ WriteFile(i) \/ WritePanel(i)
    \/ Throw(i)

Next ==
    \/ Enter \/ Kill \/ Again
    \/ \E i \in Users \cup Servers \cup {None} : Statement(i)

Spec == Init /\ [][Next]_vars

-----------------------------------------------------------------------------
(* Properties *)

TypeOK ==
    /\ script \in DOMAIN Scripts /\ apply \in BOOLEAN
    /\ mode \in Running \cup {"ok", "dry", "undone", "failed", "killed"}
    /\ left \subseteq Users \cup Servers \cup {None}
    /\ item \in Users \cup Servers \cup {None}
    /\ user \in [Users -> Doc \cup {None}]
    /\ row \in [Servers -> Row \cup {None}]
    /\ panel \in {"old", "new"}
    /\ applied \subseteq Users /\ saved \subseteq Servers
    /\ kept \subseteq Users \cup Servers

\* Does a script have this statement, outside its undoing?
Has(s) ==
    LET loops == S.before \o S.try \o S.after
    IN \E k \in DOMAIN loops : \E j \in 2..Len(loops[k]) : loops[k][j] = s

\* What a script with a backup has changed, of clients and of servers, can be
\* put back from its backup files, however often it was killed, failed and
\* was run again: the state before the first run is in one of them.  That is
\* not so of the lists of two scripts: one writes them first, the backup of
\* the other has servers alone, in one file that a second run writes over.
\* Nor of the servers of ten: eight write them before the backup, one in a
\* run without --apply, which makes none, and one has that one file.
ListsUnkept == {"RemoveGermanyLines", "DeleteDisabledServers"}
RowsUnkept == {"EnableFastlyH2Fallback", "RemoveAllFastly", "RemoveOldFastly",
               "FixOldClients", "DeployFastlyH3Pilots", "DeployFastlyTampaFornexPilots",
               "BunnyWsToXhttp", "RotateFastlyIp", "AddFr1BunnyXhttp2",
               "DeleteDisabledServers"}
BackupsHoldChanges ==
    (\E s \in {"backup", "backupRows", "backupAll", "backupOver"} : Has(s)) =>
        /\ script \notin ListsUnkept =>
              \A u \in Users : user[u] # origin.user[u] => u \in kept
        /\ script \notin RowsUnkept =>
              \A s \in Servers : row[s] # origin.row[s] => s \in kept

\* A script that says ok, and has noted no failure, has done its work also
\* where an earlier run was cut short: its clients have the list it wants, and
\* their files show what they hold.  A script that passes over clients who
\* have the list already leaves the file of one it was killed at (FixOldClients
\* also the files of those who keep their list, though it writes their servers);
\* some write settings after the files, some write no file.
SkipsChanged == {"DisableWorkerPilot", "FixAllEmpty", "RemoveGermanyLines",
                 "RemoveRetiredBundle", "RestoreTokenHashes", "RestrictFastly",
                 "RollbackFastlyH2", "RollbackSsLinks"}
SettingsLast == {"RegisterBundleLinks", "RegisterSsLinks", "RepairBundleLinks",
                 "RemoveRetiredBundle", "RestoreTokenHashes"}
SameFile(f, body) ==
    IF script \in SettingsLast THEN f.lines = body.lines /\ f.own = body.own ELSE f = body
OkIsComplete ==
    mode = "ok" /\ ~failing =>
        \A u \in Selected(origin.user) :
            /\ Has("list") => user[u] = After(u, user[u])
            /\ /\ \E s \in {"file", "fileOrNote", "refile", "sync"} : Has(s)
               /\ script # "FixOldClients"
               /\ script \in SkipsChanged => runs = 1
               => SameFile(file[u], Body(user[u]))

\* A script that has undone its work (or, without --apply, its trial) without
\* a failure has left every list and every server as it found them.  Three
\* note a client as changed only after writing its file; seven do not delete
\* a server they have created; two take servers back if all were saved.
NotesLate == {"EnableFastlyH2Fallback", "RemoveAllFastly", "RollbackFastlyH2"}
KeepsRows == {"AddRenderFr1", "AddVlessFr1Relay", "DeployFastlyH3Pilots",
              "DeployFastlyTampaFornexPilots", "EnableFastlyH2Fallback",
              "RegisterCloudflareFr1", "RegisterGcoreFr1"}
SavesTogether == {"RegisterBunnyAz", "ApplyAndroidCompat"}
UndoneIsAsBefore ==
    mode \in {"undone", "dry"} /\ ~spoilt =>
        /\ script \notin NotesLate /\ seen # None => user = seen
        /\ script \notin KeepsRows /\ prev # None =>
              \/ row = prev
              \/ script \in SavesTogether /\ ~(News \subseteq saved)
=============================================================================
