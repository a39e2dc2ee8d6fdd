--------------------------- MODULE PanelSettings ---------------------------
(***************************************************************************)
(* The settings of the panel and the links that every subscription carries *)
(* (lib/settings.js; POST batch/extra-links and batch/subscription-import  *)
(* in routes/admin.js): one row of the database, a cache of it in memory,  *)
(* edits that read the list of links through the cache and write it back   *)
(* whole, and the rebuilds of files after them, the clients side by side.  *)
(* An edit of links queues a rebuild, and these wait for each other; an    *)
(* import rebuilds the files itself, and so does a handler that stores the *)
(* file of one client, beside the queue and each other.                    *)
(*                                                                         *)
(* A call of the database is a step, an answer from the cache is none.     *)
(* The cached value may expire at any time.                                *)
(***************************************************************************)
EXTENDS Naturals, FiniteSets

CONSTANTS
    Requests,    \* requests that may be in flight at once
    Users,       \* clients with a file
    Links,
    MaxEdits,    \* bound on the edits, and the files stored apart from them
    MaxFaults,   \* bound on the failures, restarts and edits by scripts
    None

VARIABLES
    row,         \* the links in the database
    cache,       \* the links in memory, whether they are behind the row, and
                 \* the edits that were to be written when they came in
    call,        \* what each request, and each rebuild of a client, does next
    jobs,        \* rebuilds of all clients that are queued
    file,        \* the links in each client's file
    meant,       \* the links the edits meant, one after the other
    overtaken,   \* an edit has replaced links it had not read
    owed,        \* clients whose rebuild failed or was cut off, or whose last
                 \* stored links behind the row that no queued rebuild follows
    edits, faults

ghosts == <<meant, overtaken, owed>>
vars == <<row, cache, call, jobs, file, ghosts, edits, faults>>

-----------------------------------------------------------------------------

\* Rebuilds of the file of a client: by a request, or by the queue (None).
Rebuilds == (Requests \cup {None}) \X Users
Callers == Requests \cup Rebuilds
Idle == [at |-> "idle", op |-> "read", link |-> None, links |-> {}, behind |-> FALSE]
At(p, stage) == call[p].at = stage
Go(p, stage) == call' = [call EXCEPT ![p].at = stage]
Rebuild == [Idle EXCEPT !.at = "ask", !.op = "rebuild"]
Writing == {r \in Requests : At(r, "write")}

Init ==
    /\ row \in SUBSET Links
    /\ file = [u \in Users |-> row]
    /\ cache = None /\ jobs = 0
    /\ call = [p \in Callers |-> Idle]
    /\ meant = row /\ overtaken = FALSE /\ owed = {}
    /\ edits = 0 /\ faults = 0

\* The list with a link more or less; other settings leave it alone.
Applied(links, op, link) ==
    CASE op \in {"add", "import"} -> links \cup {link}
      [] op = "remove" -> links \ {link}
      [] OTHER -> links

-----------------------------------------------------------------------------
(* getPanelSettings, and what its callers do with the answer               *)

\* An edit that forgets to drop the cache before it writes.
BegunKeepsCache(cached) == cached
Begun(cached) == None

\* `now' is the cache when the answer comes.
Answer(p, links, behind, now) ==
    CASE call[p].op = "read" ->
           /\ call' = [call EXCEPT ![p] = Idle]
           /\ cache' = now /\ UNCHANGED jobs
      [] call[p].op = "written" ->
           /\ call' = [call EXCEPT ![p] = Idle]
           /\ cache' = now /\ jobs' = jobs + 1
      [] call[p].op = "imported" ->
           /\ call' = [q \in Callers |-> CASE q = p -> Idle
                                          [] q \in {p} \X Users -> Rebuild
                                          [] OTHER -> call[q]]
           /\ cache' = now /\ UNCHANGED jobs
      [] call[p].op \in {"rebuild", "refresh"} ->
           /\ call' = [call EXCEPT ![p].at = "store", ![p].links = links, ![p].behind = behind]
           /\ cache' = now /\ UNCHANGED jobs
      [] OTHER ->
           /\ IF call[p].op = "remove" /\ call[p].link \notin links
              THEN call' = [call EXCEPT ![p] = Idle] /\ cache' = now
              ELSE /\ call' = [call EXCEPT ![p].at = "write", ![p].behind = behind,
                                           ![p].links = Applied(links, call[p].op, call[p].link)]
                   /\ cache' = Begun(now)
           /\ UNCHANGED jobs

\* From memory ...
Hit(p) ==
    /\ At(p, "ask") /\ cache # None
    /\ Answer(p, cache.links, cache.behind, cache)
    /\ UNCHANGED <<row, file, ghosts, edits, faults>>

\* ... or from the database, whose answer takes its time.
Miss(p) ==
    /\ At(p, "ask") /\ cache = None
    /\ call' = [call EXCEPT ![p].at = "selected", ![p].links = row, ![p].behind = FALSE]
    /\ UNCHANGED <<row, cache, jobs, file, ghosts, edits, faults>>

Fill(p) ==
    /\ At(p, "selected")
    /\ Answer(p, call[p].links, call[p].behind,
              [links |-> call[p].links, behind |-> call[p].behind, beside |-> Writing])
    /\ UNCHANGED <<row, file, ghosts, edits, faults>>

Expire ==
    /\ cache # None
    /\ cache' = None
    /\ UNCHANGED <<row, call, jobs, file, ghosts, edits, faults>>

-----------------------------------------------------------------------------
(* updatePanelSettings *)

\* A request that rebuilds files is not over before they are stored.
Free(r) == At(r, "idle") /\ \A u \in Users : At(<<r, u>>, "idle")

Ask(r, op, link) ==
    /\ Free(r)
    /\ op = "read" \/ edits < MaxEdits
    /\ edits' = IF op = "read" THEN edits ELSE edits + 1
    /\ call' = [call EXCEPT ![r] = [Idle EXCEPT !.at = "ask", !.op = op, !.link = link]]
    /\ UNCHANGED <<row, cache, jobs, file, ghosts, faults>>

\* What these callers have read is behind the row now.
Later(ps) == [p \in Callers |-> IF p \in ps THEN [call[p] EXCEPT !.behind = TRUE] ELSE call[p]]
Having(stages) == {p \in Callers : call[p].at \in stages}
Storing == {w \in Rebuilds : At(w, "store")}
QueueStoring == {w \in Storing : w[1] = None}

WriteOther(r) ==
    /\ At(r, "write") /\ call[r].op = "other"
    /\ call' = [call EXCEPT ![r] = [Idle EXCEPT !.at = "ask", !.op = "read"]]
    /\ UNCHANGED <<row, cache, jobs, file, ghosts, edits, faults>>

\* The list goes over what the row has, and is read again for the answer.  A
\* queued rebuild that is about to store is followed by that of this edit,
\* if it is no import.
Write(r) ==
    /\ At(r, "write") /\ call[r].op # "other"
    /\ row' = call[r].links
    /\ meant' = Applied(meant, call[r].op, call[r].link)
    /\ overtaken' = (overtaken \/ call[r].behind)
    /\ cache' = IF cache # None /\ r \in cache.beside THEN [cache EXCEPT !.behind = TRUE] ELSE cache
    /\ LET import == call[r].op = "import"
           followed == IF import THEN {} ELSE QueueStoring
       IN call' = [Later(Having({"selected", "write", "store"}) \ followed) EXCEPT
                      ![r] = [Idle EXCEPT !.at = "ask", !.op = IF import THEN "imported" ELSE "written"]]
    /\ UNCHANGED <<jobs, file, owed, edits, faults>>

\* A script, a process of its own, edits the links: nobody here notices.
EditElsewhere(op, link) ==
    /\ faults < MaxFaults /\ faults' = faults + 1
    /\ row' = Applied(row, op, link) /\ row' # row
    /\ meant' = Applied(meant, op, link)
    /\ cache' = IF cache = None THEN None ELSE [cache EXCEPT !.behind = TRUE]
    /\ call' = Later(Having({"selected", "write", "store"}))
    /\ owed' = Users
    /\ UNCHANGED <<jobs, file, overtaken, edits>>

-----------------------------------------------------------------------------
(* queueExtraLinksSubscriptionSync, syncExtraSubscriptionFiles *)

\* Jobs wait for each other.
Resting == \A u \in Users : At(<<None, u>>, "idle")

StartJob ==
    /\ jobs > 0
    /\ Resting
    /\ jobs' = jobs - 1
    /\ call' = [p \in Callers |-> IF p \in {None} \X Users THEN Rebuild ELSE call[p]]
    /\ UNCHANGED <<row, cache, file, ghosts, edits, faults>>

\* It could not list the clients.
JobFails ==
    /\ faults < MaxFaults /\ faults' = faults + 1
    /\ jobs > 0
    /\ Resting
    /\ jobs' = jobs - 1
    /\ owed' = Users
    /\ UNCHANGED <<row, cache, call, file, meant, overtaken, edits>>

\* A handler that changes a client, or was asked to, stores their file.
Refresh(r, u) ==
    /\ Free(r)
    /\ edits < MaxEdits /\ edits' = edits + 1
    /\ call' = [call EXCEPT ![<<r, u>>] = [Idle EXCEPT !.at = "ask", !.op = "refresh"]]
    /\ UNCHANGED <<row, cache, jobs, file, ghosts, faults>>

StoreFile(w) ==
    /\ At(w, "store")
    /\ file' = [file EXCEPT ![w[2]] = call[w].links]
    /\ owed' = IF call[w].behind THEN owed \cup {w[2]} ELSE owed \ {w[2]}
    /\ call' = [call EXCEPT ![w] = Idle]
    /\ UNCHANGED <<row, cache, jobs, meant, overtaken, edits, faults>>

-----------------------------------------------------------------------------

\* A failing call ends the request, or leaves the client out.  A write that
\* is done and not answered has not queued, or begun, the rebuild.
Unanswered(r) == ~At(r, "idle") /\ call[r].op \in {"written", "imported"}
Rebuilt == {u \in Users : \E w \in Rebuilds : w[2] = u /\ ~At(w, "idle") /\ call[w].op = "rebuild"}

Fail(p) ==
    /\ faults < MaxFaults /\ faults' = faults + 1
    /\ call[p].at \in {"selected", "write", "store"}
    /\ owed' = CASE p \in Rebuilds /\ call[p].op = "rebuild" -> owed \cup {p[2]}
                 [] p \in Requests /\ Unanswered(p) -> Users
                 [] OTHER -> owed
    /\ call' = [(IF call[p].op = "written" THEN Later(QueueStoring) ELSE call) EXCEPT ![p] = Idle]
    /\ UNCHANGED <<row, cache, jobs, file, meant, overtaken, edits>>

Restart ==
    /\ faults < MaxFaults /\ faults' = faults + 1
    /\ owed' = IF jobs > 0 \/ \E r \in Requests : Unanswered(r) THEN Users ELSE owed \cup Rebuilt
    /\ call' = [p \in Callers |-> Idle]
    /\ cache' = None /\ jobs' = 0
    /\ UNCHANGED <<row, file, meant, overtaken, edits>>

Next ==
    \/ \E r \in Requests : \/ Ask(r, "read", None) \/ Ask(r, "other", None)
                           \/ \E op \in {"add", "remove", "import"}, link \in Links : Ask(r, op, link)
                           \/ WriteOther(r) \/ Write(r)
                           \/ \E u \in Users : Refresh(r, u)
    \/ \E link \in Links : EditElsewhere("add", link) \/ EditElsewhere("remove", link)
    \/ \E p \in Callers : Hit(p) \/ Miss(p) \/ Fill(p) \/ Fail(p)
    \/ \E w \in Rebuilds : StoreFile(w)
    \/ StartJob \/ JobFails \/ Expire \/ Restart

Spec == Init /\ [][Next]_vars

-----------------------------------------------------------------------------

TypeOK ==
    /\ row \in SUBSET Links /\ meant \in SUBSET Links
    /\ cache = None \/ cache \in [links : SUBSET Links, behind : BOOLEAN, beside : SUBSET Requests]
    /\ \A p \in Callers :
         /\ call[p].at \in {"idle", "ask", "selected", "write", "store"}
         /\ call[p].op \in {"read", "other", "add", "remove", "import", "written", "imported",
                           "rebuild", "refresh"}
         /\ call[p].links \in SUBSET Links
    /\ file \in [Users -> SUBSET Links]
    /\ jobs \in Nat /\ owed \in SUBSET Users /\ overtaken \in BOOLEAN

Quiet == jobs = 0 /\ \A p \in Callers : At(p, "idle")

\* Once nothing is queued or under way, the links of the database are those
\* the edits meant, and every client's file carries them.  Not so only if an
\* edit, or the last to store a file, was given links of before another edit:
\* from the cache, filled beside a write or behind a script's back, or because
\* the two overlapped; a queued rebuild that overlaps with an edit of links is
\* made good by the next, but not one that overlaps with an import.
LinksReachFiles ==
    Quiet => /\ overtaken \/ row = meant
             /\ \A u \in Users \ owed : file[u] = row
=============================================================================
