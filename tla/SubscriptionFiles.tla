-------------------------- MODULE SubscriptionFiles --------------------------
(***************************************************************************)
(* Subscriptions as they are served and stored: the short cache of link    *)
(* bodies (lib/subscription-body-cache.js, lib/subscription.js), the       *)
(* subscription file of each user with its row, its local copy and its     *)
(* Google Drive copy (lib/user-subscription-file.js, lib/files.js,         *)
(* lib/google-drive.js), the periodic refresh of all of them               *)
(* (lib/subscription-background-refresh.js) and the deletion of a user     *)
(* with its file (lib/user-delete.js).                                     *)
(*                                                                         *)
(* A body is known by the version of the data it was built from: servers,  *)
(* settings (as getPanelSettings returns them) and the user's row.  A step *)
(* is one statement, one file operation or one call of the Drive API.      *)
(***************************************************************************)
EXTENDS Naturals, FiniteSets

CONSTANTS
    Users,
    Requests,      \* HTTP requests that may be in flight at once
    Uncached,      \* versions of the data in which a user is disabled or has
                   \* custom content: its body is not built from the servers
    CreateFiles,   \* GOOGLE_DRIVE_CREATE_FILES
    LegacyDrive,   \* do files begin with a Drive copy made before?
    MaxEdits,      \* bound on changes of the data
    MaxDeletes,    \* bound on deletions begun
    MaxFaults,     \* bound on failed statements and calls, and on restarts
    MaxFiles,      \* bound on the rows in use at once
    MaxDrives,     \* bound on the Drive files in use at once
    None

ASSUME BoundsAssumption == \A n \in {MaxEdits, MaxDeletes, MaxFaults, MaxFiles, MaxDrives} : n \in Nat
ASSUME UncachedAssumption == Uncached \subseteq Nat
ASSUME FlagsAssumption == CreateFiles \in BOOLEAN /\ LegacyDrive \in BOOLEAN
ASSUME NoneAssumption == None \notin Users \cup Nat
ASSUME LegacyAssumption ==
    LegacyDrive => IsFiniteSet(Users) /\ Cardinality(Users) <= MaxFiles /\ MaxFiles <= MaxDrives

VARIABLES
    edit,      \* version of the data subscriptions are built from
    exists,    \* users with a row in `users'
    links,     \* the body cache: version of a user's links, or None
    file,      \* rows of `files' by id, None before and after
    deletions, \* deletions begun
    faults,    \* failures and restarts so far
    disk,      \* version of a user's local file, or None
    drive,     \* version of each Drive file
    req,       \* what each request in flight has read and does next
    todo       \* users the refresh still has to do, with the version it listed

tables == <<exists, file>>
spent == <<deletions, faults>>
copies == <<disk, drive>>
vars == <<edit, links, tables, spent, copies, req, todo>>

-----------------------------------------------------------------------------

Versions == 0 .. MaxEdits
FileIds == 1 .. MaxFiles
DriveIds == 1 .. MaxDrives
Processes == Requests \cup {"refresh"}

\* `slug' and `link' name the user; a row saved over a missing one has neither.
Row == [slug : Users \cup {None}, link : Users \cup {None},
        content : Versions, drive : DriveIds \cup {None}]
NoRow == [slug |-> None, link |-> None, content |-> 0, drive |-> None]

Stages == {"idle", "start", "build", "cache", "reply", "find", "create", "insert", "reread",
           "save", "again", "disk", "drive", "fresh", "finish",
           "delete", "delete-row", "delete-disk", "delete-file", "delete-user"}

\* `for': the request replies with the body, updates the row, or creates it.
Register == [at : Stages, for : {"reply", "update", "create", "delete"}, user : Users \cup {None},
             version : Versions, id : FileIds \cup {None}, row : Row]
Idle == [at |-> "idle", for |-> "update", user |-> None, version |-> 0, id |-> None, row |-> NoRow]

TypeOK ==
    /\ edit \in Versions
    /\ exists \subseteq Users
    /\ links \in [Users -> Versions \cup {None}]
    /\ file \in [FileIds -> Row \cup {None}]
    /\ deletions \in 0 .. MaxDeletes
    /\ faults \in 0 .. MaxFaults
    /\ disk \in [Users -> Versions \cup {None}]
    /\ drive \in [DriveIds -> Versions \cup {None}]
    /\ req \in [Processes -> Register]
    /\ todo \in [Users -> Versions \cup {None}]

-----------------------------------------------------------------------------
(* Requests *)

At(p, stage) == req[p].at = stage
Set(p, register) == req' = [req EXCEPT ![p] = register]
Move(p, stage) == Set(p, [req[p] EXCEPT !.at = stage])
Read(p, stage, row) == Set(p, [req[p] EXCEPT !.at = stage, !.row = row])
Finish(p) == Set(p, Idle)
Begin(p, u, stage, for, version) ==
    /\ At(p, "idle")
    /\ Set(p, [Idle EXCEPT !.at = stage, !.for = for, !.user = u, !.version = version])

Least(ids) == {id \in ids : \A other \in ids : id <= other}
Oldest(v, w) == IF v < w THEN v ELSE w

\* Bodies are stored with the user, then its file is found or created.
AfterBody(p) == IF req[p].for = "reply" THEN "reply" ELSE "find"

Init ==
    /\ edit = 0
    /\ exists = Users
    /\ links = [u \in Users |-> None]
    /\ req = [p \in Processes |-> Idle]
    /\ todo = [u \in Users |-> None]
    /\ deletions = 0
    /\ faults = 0
    /\ IF LegacyDrive
       THEN \E id \in [Users -> 1 .. Cardinality(Users)] :
              /\ \A u, v \in Users : id[u] = id[v] => u = v
              /\ file = [f \in FileIds |->
                   IF \E u \in Users : id[u] = f
                   THEN LET u == CHOOSE u \in Users : id[u] = f IN
                        [slug |-> u, link |-> u, content |-> 0, drive |-> f]
                   ELSE None]
              /\ disk = [u \in Users |-> 0]
              /\ drive = [d \in DriveIds |-> IF \E u \in Users : id[u] = d THEN 0 ELSE None]
       ELSE /\ file = [f \in FileIds |-> None]
            /\ disk = [u \in Users |-> None]
            /\ drive = [d \in DriveIds |-> None]

-----------------------------------------------------------------------------
(* Bodies *)

\* A server, the settings or a user's row changes.
Edit ==
    /\ edit < MaxEdits
    /\ edit' = edit + 1
    /\ UNCHANGED <<links, tables, spent, copies, req, todo>>

\* GET /sub/:token and its variants: the user's row, then a body.
Serve(p, u) ==
    /\ u \in exists
    /\ Begin(p, u, "build", "reply", edit)
    /\ UNCHANGED <<edit, links, tables, spent, copies, todo>>

\* A handler that has read the user's row calls upsertUserSubscriptionFile.
Upsert(p, u) ==
    /\ u \in exists
    /\ Begin(p, u, "start", "update", edit)
    /\ UNCHANGED <<edit, links, tables, spent, copies, todo>>

StartKeepsLinks(p) ==
    /\ At(p, "start")
    /\ Move(p, "build")
    /\ UNCHANGED <<edit, links, tables, spent, copies, todo>>

\* It begins by dropping the cached links.
Start(p) ==
    /\ At(p, "start")
    /\ links' = [links EXCEPT ![req[p].user] = None]
    /\ Move(p, "build")
    /\ UNCHANGED <<edit, tables, spent, copies, todo>>

\* buildUserSubscriptionBody: disabled and custom bodies are built at once,
\* links come from the cache or, at a later step, from the servers.
Build(p) ==
    LET cached == links[req[p].user] IN
    /\ At(p, "build")
    /\ \/ /\ req[p].version \in Uncached
          /\ Move(p, AfterBody(p))
       \/ /\ req[p].version \notin Uncached /\ cached # None
          /\ Set(p, [req[p] EXCEPT !.at = AfterBody(p), !.version = Oldest(@, cached)])
       \/ /\ req[p].version \notin Uncached /\ cached = None
          /\ Move(p, "cache")
    /\ UNCHANGED <<edit, links, tables, spent, copies, todo>>

Cache(p) ==
    /\ At(p, "cache")
    /\ links' = [links EXCEPT ![req[p].user] = req[p].version]
    /\ Move(p, AfterBody(p))
    /\ UNCHANGED <<edit, tables, spent, copies, todo>>

Reply(p) ==
    /\ At(p, "reply")
    /\ Finish(p)
    /\ UNCHANGED <<edit, links, tables, spent, copies, todo>>

\* The time to live of cached links passes.
Expire(u) ==
    /\ links[u] # None
    /\ links' = [links EXCEPT ![u] = None]
    /\ UNCHANGED <<edit, tables, spent, copies, req, todo>>

-----------------------------------------------------------------------------
(* Files *)

Linked(u) == {id \in FileIds : file[id] # None /\ file[id].link = u}
SlugTaken(slug, id) ==
    \E other \in FileIds \ {id} : file[other] # None /\ slug # None /\ file[other].slug = slug

SaveRowAnySlug(p, row, stage) ==
    /\ file' = [file EXCEPT ![req[p].id] = row]
    /\ IF stage = "idle" THEN Finish(p) ELSE Move(p, stage)

\* savePgFileRecord; the statement fails, and the request with it, on a slug
\* of another row.
SaveRow(p, row, stage) ==
    IF SlugTaken(row.slug, req[p].id)
    THEN Finish(p) /\ file' = file
    ELSE /\ file' = [file EXCEPT ![req[p].id] = row]
         /\ IF stage = "idle" THEN Finish(p) ELSE Move(p, stage)


Find(p) ==
    LET u == req[p].user IN
    /\ At(p, "find")
    /\ \/ Linked(u) = {} /\ Move(p, "create")
       \/ \E id \in Linked(u) : Set(p, [req[p] EXCEPT !.at = "reread", !.id = id])
    /\ UNCHANGED <<edit, links, tables, spent, copies, todo>>

\* Ids are random: one that neither a row nor a request holds is as good as new.
FreeIds == {id \in FileIds : file[id] = None /\ \A q \in Processes : req[q].id # id}

\* createFile: assertUniqueSlug, and an id of its own.
Create(p) ==
    LET u == req[p].user IN
    /\ At(p, "create")
    /\ \/ SlugTaken(u, None) /\ Finish(p)
       \/ /\ ~SlugTaken(u, None)
          /\ \E id \in Least(FreeIds) :
               Set(p, [req[p] EXCEPT !.at = "insert", !.for = "create", !.id = id,
                         !.row = [slug |-> u, link |-> u, content |-> req[p].version, drive |-> None]])
    /\ UNCHANGED <<edit, links, tables, spent, copies, todo>>

Insert(p) ==
    /\ At(p, "insert")
    /\ SaveRow(p, req[p].row, "disk")
    /\ UNCHANGED <<edit, links, exists, spent, copies, todo>>

\* updateFile: the row by its id, without which nothing is done ...
Reread(p) ==
    LET row == file[req[p].id] IN
    /\ At(p, "reread")
    /\ IF row = None THEN Finish(p) ELSE Read(p, "save", row)
    /\ UNCHANGED <<edit, links, tables, spent, copies, todo>>

\* ... the whole record back, with the new content ...
Save(p) ==
    LET row == [req[p].row EXCEPT !.content = req[p].version, !.link = req[p].user] IN
    /\ At(p, "save")
    /\ SaveRow(p, row, "again")
    /\ UNCHANGED <<edit, links, exists, spent, copies, todo>>

\* ... and what the row holds by now goes to the disk and to Drive.
Again(p) ==
    LET row == file[req[p].id] IN
    /\ At(p, "again")
    /\ IF row = None \/ row.link = None THEN Finish(p) ELSE Read(p, "disk", row)
    /\ UNCHANGED <<edit, links, tables, spent, copies, todo>>

Disk(p) ==
    /\ At(p, "disk")
    /\ disk' = [disk EXCEPT ![req[p].user] = req[p].row.content]
    /\ Move(p, "drive")
    /\ UNCHANGED <<edit, links, tables, spent, drive, todo>>

AfterDrive(p) == IF req[p].for = "create" THEN "finish" ELSE "fresh"

\* syncGoogleDriveFile: no file asked for, an update in place, a new file
\* (one that no row or request names is as good as new) ...
NoDrive(p) ==
    /\ At(p, "drive")
    /\ req[p].row.drive = None /\ ~CreateFiles
    /\ Move(p, AfterDrive(p))
    /\ UNCHANGED <<edit, links, tables, spent, copies, todo>>

DriveUpdate(p) ==
    /\ At(p, "drive")
    /\ req[p].row.drive # None
    /\ drive' = [drive EXCEPT ![req[p].row.drive] = req[p].row.content]
    /\ Move(p, AfterDrive(p))
    /\ UNCHANGED <<edit, links, tables, spent, disk, todo>>

FreeDrives ==
    {d \in DriveIds : /\ \A f \in FileIds : file[f] # None => file[f].drive # d
                      /\ \A q \in Processes : req[q].row.drive # d}

DriveCreate(p) ==
    /\ At(p, "drive")
    /\ req[p].row.drive = None /\ CreateFiles
    /\ \E d \in Least(FreeDrives) :
         /\ drive' = [drive EXCEPT ![d] = req[p].row.content]
         /\ Set(p, [req[p] EXCEPT !.at = AfterDrive(p), !.row.drive = d])
    /\ UNCHANGED <<edit, links, tables, spent, disk, todo>>

Fault == faults < MaxFaults /\ faults' = faults + 1

\* ... or an error, which safeSyncGoogleDriveFile swallows.
DriveFails(p) ==
    /\ At(p, "drive")
    /\ req[p].row.drive # None \/ CreateFiles
    /\ Move(p, AfterDrive(p))
    /\ Fault
    /\ UNCHANGED <<edit, links, tables, deletions, copies, todo>>

FreshUnchecked(p) ==
    /\ At(p, "fresh")
    /\ req' = [req EXCEPT ![p].at = "finish", ![p].row = file[req[p].id]]
    /\ UNCHANGED <<edit, links, tables, spent, copies, todo>>

FreshDropsDrive(p) ==
    LET row == IF file[req[p].id] = None THEN NoRow ELSE file[req[p].id] IN
    /\ At(p, "fresh")
    /\ \E d \in {None, req[p].row.drive} : Read(p, "finish", [row EXCEPT !.drive = d])
    /\ UNCHANGED <<edit, links, tables, spent, copies, todo>>

\* The row once more, which may have gone, with the Drive id put into it.
Fresh(p) ==
    LET row == IF file[req[p].id] = None THEN NoRow ELSE file[req[p].id] IN
    /\ At(p, "fresh")
    /\ Read(p, "finish", [row EXCEPT !.drive = req[p].row.drive])
    /\ UNCHANGED <<edit, links, tables, spent, copies, todo>>

FinishFile(p) ==
    /\ At(p, "finish")
    /\ SaveRow(p, req[p].row, "idle")
    /\ UNCHANGED <<edit, links, exists, spent, copies, todo>>

\* Any statement or file operation may fail, and the request with it.
Fails(p) ==
    /\ ~At(p, "idle")
    /\ Finish(p)
    /\ Fault
    /\ UNCHANGED <<edit, links, tables, deletions, copies, todo>>

-----------------------------------------------------------------------------
(* The deletion of a user with its file *)

DeleteBegin(p, u) ==
    /\ u \in exists
    /\ deletions < MaxDeletes
    /\ deletions' = deletions + 1
    /\ Begin(p, u, "delete", "delete", 0)
    /\ UNCHANGED <<edit, links, tables, faults, copies, todo>>

DeleteFind(p) ==
    LET u == req[p].user IN
    /\ At(p, "delete")
    /\ \/ Linked(u) = {} /\ Move(p, "delete-user")
       \/ \E id \in Linked(u) : Set(p, [req[p] EXCEPT !.at = "delete-row", !.id = id])
    /\ UNCHANGED <<edit, links, tables, spent, copies, todo>>

DeleteRow(p) ==
    /\ At(p, "delete-row")
    /\ Move(p, IF file[req[p].id] = None THEN "delete-user" ELSE "delete-disk")
    /\ UNCHANGED <<edit, links, tables, spent, copies, todo>>

DeleteDisk(p) ==
    /\ At(p, "delete-disk")
    /\ disk' = [disk EXCEPT ![req[p].user] = None]
    /\ Move(p, "delete-file")
    /\ UNCHANGED <<edit, links, tables, spent, drive, todo>>

DeleteFile(p) ==
    /\ At(p, "delete-file")
    /\ file' = [file EXCEPT ![req[p].id] = None]
    /\ Move(p, "delete-user")
    /\ UNCHANGED <<edit, links, exists, spent, copies, todo>>

DeleteUser(p) ==
    /\ At(p, "delete-user")
    /\ exists' = exists \ {req[p].user}
    /\ Finish(p)
    /\ UNCHANGED <<edit, links, file, spent, copies, todo>>

-----------------------------------------------------------------------------
(* The refresh of all files, one run at a time over what listUsers saw *)

Listed == [u \in Users |-> IF u \in exists THEN edit ELSE None]

RefreshStart ==
    /\ At("refresh", "idle")
    /\ \A u \in Users : todo[u] = None
    /\ todo' = Listed
    /\ UNCHANGED <<edit, links, tables, spent, copies, req>>

RefreshUser(u) ==
    /\ todo[u] # None
    /\ Begin("refresh", u, "start", "update", todo[u])
    /\ todo' = [todo EXCEPT ![u] = None]
    /\ UNCHANGED <<edit, links, tables, spent, copies>>

Restart ==
    /\ links' = [u \in Users |-> None]
    /\ req' = [p \in Processes |-> Idle]
    /\ todo' = [u \in Users |-> None]
    /\ Fault
    /\ UNCHANGED <<edit, tables, deletions, copies>>

-----------------------------------------------------------------------------

Arrive(r, u) == Serve(r, u) \/ Upsert(r, u) \/ DeleteBegin(r, u)

Drive(p) == NoDrive(p) \/ DriveUpdate(p) \/ DriveCreate(p)

Continue(p) ==
    \/ Start(p) \/ Build(p) \/ Cache(p) \/ Reply(p)
    \/ Find(p) \/ Create(p) \/ Insert(p)
    \/ Reread(p) \/ Save(p) \/ Again(p) \/ Disk(p)
    \/ Drive(p) \/ Fresh(p) \/ FinishFile(p)
    \/ DeleteFind(p) \/ DeleteRow(p) \/ DeleteDisk(p) \/ DeleteFile(p) \/ DeleteUser(p)

Next ==
    \/ \E r \in Requests, u \in Users : Arrive(r, u)
    \/ \E p \in Processes : Continue(p) \/ DriveFails(p) \/ Fails(p)
    \/ \E u \in Users : Expire(u) \/ RefreshUser(u)
    \/ Edit \/ RefreshStart \/ Restart

Spec == Init /\ [][Next]_vars

\* setInterval starts a refresh for ever and the steps of one get their answer,
\* which fails MaxFaults times at most.
RefreshNext ==
    \/ RefreshStart
    \/ \E u \in Users : RefreshUser(u)
    \/ Continue("refresh")

LiveSpec == Spec /\ WF_vars(RefreshNext)

-----------------------------------------------------------------------------
(* Properties *)

\* Requests that create, update and delete the file of a user at once leave no
\* two rows with its slug, which is how the file is fetched from outside.
SlugsIdentify ==
    \A f, g \in FileIds :
        file[f] # None /\ file[g] # None /\ file[f].slug # None /\ file[f].slug = file[g].slug => f = g

\* files.js: "The URL is the client's stable identity and only its remote
\* content changes": a row keeps the Drive file it has.
DriveIdentityStays ==
    [][\A id \in FileIds :
        file[id] # None /\ file'[id] # None /\ file[id].drive # None
        => file'[id].drive = file[id].drive]_vars

\* Once the data stop changing and no request updates or deletes a file any
\* more, the cached links, a row, the local file and the Drive copy of every
\* user come to hold the last of them, and keep it: whatever the requests that
\* overlapped, failed or were cut off by a restart have left, the refresh mends.
Quiet == \A r \in Requests : At(r, "idle") \/ req[r].for = "reply"
Current(u) ==
    /\ links[u] \in {None, edit}
    /\ disk[u] = edit
    /\ \E id \in Linked(u) :
         /\ file[id].content = edit
         /\ file[id].drive # None => drive[file[id].drive] = edit
FilesConverge == <>[]Quiet => \A u \in Users : <>[](u \in exists => Current(u))
=============================================================================
