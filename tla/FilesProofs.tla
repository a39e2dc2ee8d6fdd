---------------------------- MODULE FilesProofs ----------------------------
(***************************************************************************)
(* For any users and requests, and any bounds: subscription files keep     *)
(* their slugs apart (TwoSlugsIdentify); and with two requests at once,    *)
(* rows, copies and registers keep their type and, where no Drive files    *)
(* are made, a row keeps the one it has (TwoDriveIdentityStays).           *)
(***************************************************************************)
EXTENDS MCFiles, FiniteSetTheorems, TLAPS

-----------------------------------------------------------------------------
(* Slugs *)

\* All that any step does to the rows: one is written, with a slug of no other
\* row, or deleted.
WritesRow == \E id, row : ~SlugTaken(row.slug, id) /\ file' = [file EXCEPT ![id] = row]
DeletesRow == \E id : file' = [file EXCEPT ![id] = None]
ChangesOneRow == file' = file \/ WritesRow \/ DeletesRow

IsTable == file = [id \in FileIds |-> file[id]]
SlugsInv == IsTable /\ SlugsIdentify

\* SaveRow checks the slug, whoever calls it.
LEMMA SavesChangeOneRow ==
    ASSUME NEW p, NEW row, NEW stage, SaveRow(p, row, stage) \/ Two!SaveRow(p, row, stage)
    PROVE  ChangesOneRow
BY DEF SaveRow, Two!SaveRow, SlugTaken, Two!SlugTaken, FileIds, Two!FileIds, ChangesOneRow, WritesRow

\* So do the steps of a request in the setting "converge" ...
LEMMA ContinuesChangeOneRow ==
    ASSUME NEW p, Continue(p)
    PROVE  ChangesOneRow
<1>1. CASE Start(p) \/ Build(p) \/ Cache(p) \/ Reply(p) \/ Find(p) \/ Create(p)
  BY <1>1 DEF Start, Build, Cache, Reply, Find, Create, ChangesOneRow, tables
<1>2. CASE Reread(p) \/ Again(p) \/ Disk(p) \/ Drive(p) \/ Fresh(p)
  BY <1>2 DEF Reread, Again, Disk, Drive, NoDrive, DriveUpdate, DriveCreate, Fresh, ChangesOneRow, tables
<1>3. CASE Insert(p) \/ Save(p) \/ FinishFile(p)
  BY <1>3, SavesChangeOneRow DEF Insert, Save, FinishFile
<1>4. CASE DeleteFile(p)
  BY <1>4 DEF DeleteFile, ChangesOneRow, DeletesRow
<1>5. CASE DeleteFind(p) \/ DeleteRow(p) \/ DeleteDisk(p) \/ DeleteUser(p)
  BY <1>5 DEF DeleteFind, DeleteRow, DeleteDisk, DeleteUser, ChangesOneRow, tables
<1> QED
  BY <1>1, <1>2, <1>3, <1>4, <1>5 DEF Continue

\* ... and all other steps.
LEMMA StepsChangeOneRow == ASSUME Next PROVE ChangesOneRow
<1>1. CASE \E r \in Requests, u \in Users : Arrive(r, u)
  BY <1>1 DEF Arrive, Serve, Upsert, DeleteBegin, ChangesOneRow, tables
<1>2. CASE \E p \in Processes : Continue(p)
  BY <1>2, ContinuesChangeOneRow
<1>3. CASE \E p \in Processes : DriveFails(p) \/ Fails(p)
  BY <1>3 DEF DriveFails, Fails, ChangesOneRow, tables
<1>4. CASE \E u \in Users : Expire(u) \/ RefreshUser(u)
  BY <1>4 DEF Expire, RefreshUser, ChangesOneRow, tables
<1>5. CASE Edit \/ RefreshStart \/ Restart
  BY <1>5 DEF Edit, RefreshStart, Restart, ChangesOneRow, tables
<1> QED
  BY <1>1, <1>2, <1>3, <1>4, <1>5 DEF Next

\* The same for two requests at once.
LEMMA TwoContinuesChangeOneRow ==
    ASSUME NEW p, Two!Continue(p)
    PROVE  ChangesOneRow
<1>1. CASE Two!Start(p) \/ Two!Build(p) \/ Two!Cache(p) \/ Two!Reply(p) \/ Two!Find(p) \/ Two!Create(p)
  BY <1>1 DEF Two!Start, Two!Build, Two!Cache, Two!Reply, Two!Find, Two!Create, ChangesOneRow, Two!tables
<1>2. CASE Two!Reread(p) \/ Two!Again(p) \/ Two!Disk(p) \/ Two!Drive(p) \/ Two!Fresh(p)
  BY <1>2 DEF Two!Reread, Two!Again, Two!Disk, Two!Drive, Two!NoDrive, Two!DriveUpdate, Two!DriveCreate,
              Two!Fresh, ChangesOneRow, Two!tables
<1>3. CASE Two!Insert(p) \/ Two!Save(p) \/ Two!FinishFile(p)
  BY <1>3, SavesChangeOneRow DEF Two!Insert, Two!Save, Two!FinishFile
<1>4. CASE Two!DeleteFile(p)
  BY <1>4 DEF Two!DeleteFile, ChangesOneRow, DeletesRow
<1>5. CASE Two!DeleteFind(p) \/ Two!DeleteRow(p) \/ Two!DeleteDisk(p) \/ Two!DeleteUser(p)
  BY <1>5 DEF Two!DeleteFind, Two!DeleteRow, Two!DeleteDisk, Two!DeleteUser, ChangesOneRow, Two!tables
<1> QED
  BY <1>1, <1>2, <1>3, <1>4, <1>5 DEF Two!Continue

\* ... and the other steps.
LEMMA TwoStepsChangeOneRow == ASSUME Two!Next PROVE ChangesOneRow
<1>1. CASE \E r \in Requests \cup {r2}, u \in Users : Two!Arrive(r, u)
  BY <1>1 DEF Two!Arrive, Two!Serve, Two!Upsert, Two!DeleteBegin, ChangesOneRow, Two!tables
<1>2. CASE \E p \in Two!Processes : Two!Continue(p)
  BY <1>2, TwoContinuesChangeOneRow
<1>3. CASE \E p \in Two!Processes : Two!DriveFails(p) \/ Two!Fails(p)
  BY <1>3 DEF Two!DriveFails, Two!Fails, ChangesOneRow, Two!tables
<1>4. CASE \E u \in Users : Two!Expire(u) \/ Two!RefreshUser(u)
  BY <1>4 DEF Two!Expire, Two!RefreshUser, ChangesOneRow, Two!tables
<1>5. CASE Two!Edit \/ Two!RefreshStart \/ Two!Restart
  BY <1>5 DEF Two!Edit, Two!RefreshStart, Two!Restart, ChangesOneRow, Two!tables
<1> QED
  BY <1>1, <1>2, <1>3, <1>4, <1>5 DEF Two!Next

\* Such a change keeps slugs apart.
LEMMA SlugsStay == SlugsInv /\ ChangesOneRow => SlugsInv'
<1> SUFFICES ASSUME SlugsInv, ChangesOneRow PROVE SlugsInv'
  OBVIOUS
<1> USE DEF SlugsInv, IsTable, SlugsIdentify
<1>1. CASE file' = file
  BY <1>1
<1>2. CASE WritesRow
  <2>1. PICK id, row : ~SlugTaken(row.slug, id) /\ file' = [file EXCEPT ![id] = row]
    BY <1>2 DEF WritesRow
  <2>2. IsTable' /\ \A f \in FileIds : file'[f] = IF f = id THEN row ELSE file[f]
    BY <2>1
  <2>3. \A f \in FileIds : f # id /\ file[f] # None /\ row.slug # None => file[f].slug # row.slug
    BY <2>1 DEF SlugTaken
  <2> QED
    BY <2>2, <2>3
<1>3. CASE DeletesRow
  <2>1. PICK id : file' = [file EXCEPT ![id] = None]
    BY <1>3 DEF DeletesRow
  <2>2. IsTable' /\ \A f \in FileIds : file'[f] = IF f = id THEN None ELSE file[f]
    BY <2>1
  <2> QED
    BY <2>2
<1> QED
  BY <1>1, <1>2, <1>3 DEF ChangesOneRow

\* Files made before have slugs of their own.
LEMMA SlugsBegin == Init \/ Two!Init => SlugsInv
<1> DEFINE LegacyRow(u, f) == [slug |-> u, link |-> u, content |-> 0, drive |-> f]
           Legacy(id) == [f \in FileIds |->
                            IF \E u \in Users : id[u] = f
                            THEN LegacyRow(CHOOSE u \in Users : id[u] = f, f)
                            ELSE None]
<1>1. ASSUME NEW S, NEW id \in [Users -> S], file = Legacy(id) PROVE SlugsInv
  <2>1. ASSUME NEW f \in FileIds, file[f] # None PROVE file[f].slug \in Users /\ id[file[f].slug] = f
    <3>1. PICK u \in Users : id[u] = f
      BY <1>1, <2>1
    <3>2. file[f] = LegacyRow(CHOOSE v \in Users : id[v] = f, f)
      BY <1>1, <3>1
    <3>3. file[f].slug = CHOOSE v \in Users : id[v] = f
      BY <3>2
    <3> QED
      BY <3>1, <3>3
  <2>2. IsTable
    BY <1>1 DEF IsTable
  <2> QED
    BY <2>1, <2>2 DEF SlugsInv, SlugsIdentify
<1>2. CASE Init
  BY <1>1, <1>2 DEF Init, SlugsInv, IsTable, SlugsIdentify
<1>3. CASE Two!Init
  <2>1. CASE LegacyDrive
    <3>1. PICK id \in [Users -> 1 .. Two!Cardinality(Users)] : file = Legacy(id)
      BY <1>3, <2>1 DEF Two!Init, Two!FileIds, FileIds
    <3> QED
      BY <1>1, <3>1
  <2>2. CASE ~LegacyDrive
    <3>1. file = [f \in FileIds |-> None]
      BY <1>3, <2>2 DEF Two!Init, Two!FileIds, FileIds
    <3> QED
      BY <3>1 DEF SlugsInv, IsTable, SlugsIdentify
  <2> QED
    BY <2>1, <2>2
<1> QED
  BY <1>2, <1>3

\* In both settings and for any bounds, no two rows share a slug, however
\* requests that create, update and delete files overlap (files.js).
THEOREM SlugsStayApart == MCSpec => []TwoSlugsIdentify
<1>1. MCInit => SlugsInv
  BY SlugsBegin DEF MCInit
<1>2. SlugsInv /\ [MCNext]_<<scenario, vars>> => SlugsInv'
  <2> SUFFICES ASSUME SlugsInv, [MCNext]_<<scenario, vars>> PROVE SlugsInv'
    OBVIOUS
  <2>1. CASE MCNext
    BY <2>1, StepsChangeOneRow, TwoStepsChangeOneRow, SlugsStay DEF MCNext
  <2>2. CASE UNCHANGED <<scenario, vars>>
    BY <2>2 DEF vars, tables, SlugsInv, IsTable, SlugsIdentify
  <2> QED
    BY <2>1, <2>2
<1>3. SlugsInv => TwoSlugsIdentify
  BY DEF SlugsInv, SlugsIdentify, TwoSlugsIdentify, Two!SlugsIdentify, FileIds, Two!FileIds
<1> QED
  BY <1>1, <1>2, <1>3, PTL DEF MCSpec

-----------------------------------------------------------------------------
(* Types and Drive files, for two requests at once *)

\* The stages of a request that has chosen a file, and of one that has read,
\* or made, its row.
WithFile == {"insert", "reread", "save", "again", "disk", "drive", "fresh", "finish"}
WithRow == WithFile \ {"reread"}

Tables ==
    /\ edit \in Two!Versions
    /\ exists \subseteq Users
    /\ links \in [Users -> Two!Versions \cup {None}]
    /\ file \in [FileIds -> Two!Row \cup {None}]
    /\ deletions \in 0 .. MaxDeletes
    /\ faults \in 0 .. MaxFaults
    /\ disk \in [Users -> Two!Versions \cup {None}]
    /\ drive \in [Two!DriveIds -> Two!Versions \cup {None}]
    /\ todo \in [Users -> Two!Versions \cup {None}]

WellFormed(g) ==
    /\ g \in Two!Register
    /\ g.at # "idle" => g.user \in Users
    /\ g.at \in WithFile => g.id \in FileIds
Registers == req \in [Two!Processes -> Two!Register] /\ \A p \in Two!Processes : WellFormed(req[p])

\* A request that is to save a row of a file saves the Drive file that the row
\* has, and if the row has gone meanwhile, the one any other request saves.
SavesDriveOf(g, h) == g.at \in WithRow /\ h.at \in WithRow /\ g.id = h.id => g.row.drive = h.row.drive
SavesDriveOfRow(g) == g.at \in WithRow /\ file[g.id] # None => g.row.drive = file[g.id].drive
DrivesAgree ==
    /\ \A p \in Two!Processes : SavesDriveOfRow(req[p])
    /\ \A p, q \in Two!Processes : SavesDriveOf(req[p], req[q])

DriveInv == Tables /\ Registers /\ DrivesAgree

\* `g' is what the register `h' becomes while the request goes on with its file.
GoesOn(g, h) == g.at \in WithRow => h.at \in WithRow /\ g.id = h.id /\ g.row.drive = h.row.drive

\* A register changes, into one that agrees with the row and the registers of others.
LEMMA RegisterStep ==
    ASSUME Registers, DrivesAgree, NEW p \in Two!Processes, NEW g, WellFormed(g),
           req' = [req EXCEPT ![p] = g], file' = file,
           SavesDriveOfRow(g),
           \A q \in Two!Processes \ {p} : SavesDriveOf(g, req[q])
    PROVE  Registers' /\ DrivesAgree'
<1>1. req' \in [Two!Processes -> Two!Register]
  BY DEF Registers, WellFormed
<1>2. \A q \in Two!Processes : req'[q] = IF q = p THEN g ELSE req[q]
  BY DEF Registers
<1>3. Registers'
  BY <1>1, <1>2 DEF Registers, WellFormed
<1>4. \A q \in Two!Processes : SavesDriveOfRow(req[q])'
  BY <1>2 DEF DrivesAgree, SavesDriveOfRow
<1>5. \A q, r \in Two!Processes : SavesDriveOf(req[q], req[r])'
  BY <1>2 DEF DrivesAgree, SavesDriveOf
<1> QED
  BY <1>3, <1>4, <1>5 DEF DrivesAgree

\* A request goes on with the file and the Drive file it has, or drops them.
LEMMA GoingOn ==
    ASSUME Registers, DrivesAgree, NEW p \in Two!Processes, NEW g, WellFormed(g),
           req' = [req EXCEPT ![p] = g], file' = file, GoesOn(g, req[p])
    PROVE  Registers' /\ DrivesAgree'
<1>1. SavesDriveOfRow(g)
  BY DEF GoesOn, DrivesAgree, SavesDriveOfRow
<1>2. \A q \in Two!Processes \ {p} : SavesDriveOf(g, req[q])
  BY DEF GoesOn, DrivesAgree, SavesDriveOf
<1> QED
  BY <1>1, <1>2, RegisterStep

\* The row is written with the Drive file its request has for it.
LEMMA RowStep ==
    ASSUME Registers, DrivesAgree, Tables, NEW p \in Two!Processes, NEW g, WellFormed(g), NEW row \in Two!Row,
           req[p].at \in WithRow, row.drive = req[p].row.drive,
           req' = [req EXCEPT ![p] = g], file' = [file EXCEPT ![req[p].id] = row],
           GoesOn(g, req[p])
    PROVE  /\ Registers' /\ DrivesAgree'
           /\ file' \in [FileIds -> Two!Row \cup {None}]
           /\ \A id \in FileIds : file[id] # None => file'[id].drive = file[id].drive
<1>1. req' \in [Two!Processes -> Two!Register]
  BY DEF Registers, WellFormed
<1>2. \A q \in Two!Processes : req'[q] = IF q = p THEN g ELSE req[q]
  BY DEF Registers
<1>3. Registers'
  BY <1>1, <1>2 DEF Registers, WellFormed
<1>4. req[p].id \in FileIds
  BY DEF Registers, WellFormed, WithRow
<1>5. /\ file' \in [FileIds -> Two!Row \cup {None}]
      /\ \A id \in FileIds : file'[id] = IF id = req[p].id THEN row ELSE file[id]
  BY <1>4 DEF Tables
<1>6. \A id \in FileIds : file[id] # None => file'[id].drive = file[id].drive
  BY <1>5 DEF DrivesAgree, SavesDriveOfRow
<1>7. \A q, r \in Two!Processes : SavesDriveOf(req[q], req[r])'
  BY <1>2 DEF DrivesAgree, SavesDriveOf, GoesOn
<1>8. \A q \in Two!Processes : SavesDriveOfRow(req[q])'
  <2> SUFFICES ASSUME NEW q \in Two!Processes, req'[q].at \in WithRow, file'[req'[q].id] # None
               PROVE  req'[q].row.drive = file'[req'[q].id].drive
    BY DEF SavesDriveOfRow
  <2>1. req'[q].id \in FileIds
    BY <1>3 DEF Registers, WellFormed, WithRow
  <2>2. CASE req'[q].id = req[p].id
    <3>1. req'[q].row.drive = req[p].row.drive
      BY <1>2, <2>2 DEF GoesOn, DrivesAgree, SavesDriveOf
    <3> QED
      BY <3>1, <1>5, <2>1, <2>2
  <2>3. CASE req'[q].id # req[p].id
    <3>1. file'[req'[q].id] = file[req'[q].id]
      BY <1>5, <2>1, <2>3
    <3>2. q # p
      BY <1>2, <2>3 DEF GoesOn
    <3>3. req'[q] = req[q]
      BY <1>2, <3>2
    <3> QED
      BY <3>1, <3>3 DEF DrivesAgree, SavesDriveOfRow
  <2> QED
    BY <2>2, <2>3
<1> QED
  BY <1>3, <1>5, <1>6, <1>7, <1>8 DEF DrivesAgree

\* No row that stays and has a Drive file gets another.
KeepsDrives ==
    \A id \in FileIds :
        file[id] # None /\ file'[id] # None /\ file[id].drive # None
        => file'[id].drive = file[id].drive

USE NoneAssumption, BoundsAssumption, TwoEditsAssumption

\* A register that moves to another stage, or is given up.
LEMMA Moved ==
    ASSUME NEW h, WellFormed(h), NEW stage \in Two!Stages,
           h.at # "idle",
           stage \in WithFile => h.at \in WithFile,
           stage \in WithRow => h.at \in WithRow
    PROVE  LET g == [h EXCEPT !.at = stage] IN WellFormed(g) /\ GoesOn(g, h)
BY DEF WellFormed, GoesOn, Two!Register, WithFile, WithRow

\* A request that ends holds no file.
LEMMA Finished == WellFormed(Two!Idle) /\ \A h : GoesOn(Two!Idle, h)
BY DEF WellFormed, GoesOn, Two!Register, Two!Idle, Two!NoRow, Two!Row, Two!Stages, Two!Versions, WithFile, WithRow

\* A step that writes no row.
LEMMA Unsaved ==
    ASSUME DriveInv, file' = file, Tables', Registers' /\ DrivesAgree'
    PROVE  DriveInv' /\ KeepsDrives
BY DEF DriveInv, KeepsDrives

\* A step that saves the row of its register, or fails on its slug.
LEMMA Saved ==
    ASSUME DriveInv, NEW p \in Two!Processes, NEW row \in Two!Row, NEW stage \in Two!Stages,
           req[p].at \in WithRow, row.drive = req[p].row.drive, Two!SaveRow(p, row, stage),
           UNCHANGED <<edit, links, exists, deletions, faults, disk, drive, todo>>
    PROVE  DriveInv' /\ KeepsDrives
<1>1. CASE file' = file /\ Two!Finish(p)
  <2>1. Registers' /\ DrivesAgree'
    BY <1>1, Finished, GoingOn DEF DriveInv, Two!Finish, Two!Set
  <2>2. Tables'
    BY <1>1 DEF DriveInv, Tables
  <2> QED
    BY <1>1, <2>1, <2>2, Unsaved
<1>2. CASE file' = [file EXCEPT ![req[p].id] = row] /\ (Two!Finish(p) \/ Two!Move(p, stage))
  <2>1. PICK g : WellFormed(g) /\ GoesOn(g, req[p]) /\ req' = [req EXCEPT ![p] = g]
    <3>1. CASE Two!Finish(p)
      BY <3>1, Finished DEF Two!Finish, Two!Set
    <3>2. CASE Two!Move(p, stage)
      <4>1. WellFormed(req[p])
        BY DEF DriveInv, Registers
      <4>2. req[p].at \in WithFile /\ req[p].at # "idle"
        BY DEF WithRow, WithFile
      <4> QED
        BY <3>2, <4>1, <4>2, Moved DEF Two!Move, Two!Set
    <3> QED
      BY <1>2, <3>1, <3>2
  <2>2. /\ Registers' /\ DrivesAgree'
        /\ file' \in [FileIds -> Two!Row \cup {None}]
        /\ \A id \in FileIds : file[id] # None => file'[id].drive = file[id].drive
    BY <1>2, <2>1, RowStep DEF DriveInv
  <2>3. Tables'
    BY <2>2 DEF DriveInv, Tables
  <2> QED
    BY <2>2, <2>3 DEF DriveInv, KeepsDrives
<1> QED
  BY <1>1, <1>2 DEF Two!SaveRow

\* A register as a request begins.
LEMMA Begun ==
    ASSUME DriveInv, NEW p \in Two!Processes, NEW u \in Users, NEW stage \in {"start", "build", "delete"},
           NEW for \in {"reply", "update", "delete"}, NEW version \in Two!Versions, file' = file,
           Two!Begin(p, u, stage, for, version)
    PROVE  Registers' /\ DrivesAgree'
<1> DEFINE g == [Two!Idle EXCEPT !.at = stage, !.for = for, !.user = u, !.version = version]
<1>1. req' = [req EXCEPT ![p] = g]
  BY DEF Two!Begin, Two!Set
<1>2. WellFormed(g)
  <2>1. Two!Idle \in Two!Register
    BY Finished DEF WellFormed
  <2>2. g \in Two!Register
    BY <2>1 DEF Two!Register, Two!Stages
  <2>3. g.at = stage /\ g.user = u
    BY <2>1 DEF Two!Register
  <2> QED
    BY <2>2, <2>3 DEF WellFormed, WithFile
<1>3. GoesOn(g, req[p])
  BY DEF GoesOn, Two!Idle, WithFile, WithRow
<1> HIDE DEF g
<1> QED
  BY <1>1, <1>2, <1>3, GoingOn DEF DriveInv

\* A step of a request that only moves on.
LEMMA MovedOn ==
    ASSUME DriveInv, NEW p \in Two!Processes, NEW stage \in Two!Stages, file' = file,
           Two!Move(p, stage), ~Two!At(p, "idle"),
           stage \in WithFile => req[p].at \in WithFile,
           stage \in WithRow => req[p].at \in WithRow
    PROVE  Registers' /\ DrivesAgree'
<1>1. WellFormed(req[p])
  BY DEF DriveInv, Registers
<1>2. WellFormed([req[p] EXCEPT !.at = stage]) /\ GoesOn([req[p] EXCEPT !.at = stage], req[p])
  BY <1>1, Moved DEF Two!At
<1> QED
  BY <1>2, GoingOn DEF DriveInv, Two!Move, Two!Set

\* A step that ends its request.
LEMMA GivenUp ==
    ASSUME DriveInv, NEW p \in Two!Processes, file' = file, Two!Finish(p)
    PROVE  Registers' /\ DrivesAgree'
BY Finished, GoingOn DEF DriveInv, Two!Finish, Two!Set

\* Stages and registers of the steps below.
LEMMA VersionsAreVersions ==
    /\ \A v, w \in Two!Versions : Two!Oldest(v, w) \in Two!Versions
    /\ Two!Versions \subseteq Nat
BY DEF Two!Versions, Two!Oldest

\* Steps that build a body, or look for the file of a user.
LEMMA BodySteps ==
    ASSUME DriveInv, NEW p \in Two!Processes,
           \/ Two!Start(p) \/ Two!Build(p) \/ Two!Cache(p) \/ Two!Reply(p)
    PROVE  DriveInv' /\ KeepsDrives
<1> USE DEF Two!tables, Two!spent, Two!copies, Two!At
<1>0. /\ Two!AfterBody(p) \in {"reply", "find"} /\ Two!AfterBody(p) \in Two!Stages
      /\ Two!AfterBody(p) \notin WithFile \cup WithRow
      /\ "build" \in Two!Stages \ (WithFile \cup WithRow)
      /\ "cache" \in Two!Stages \ (WithFile \cup WithRow)
  BY DEF Two!AfterBody, Two!Stages, WithFile, WithRow
<1>r. req[p] \in Two!Register /\ req \in [Two!Processes -> Two!Register]
  BY DEF DriveInv, Registers
<1>1. CASE Two!Start(p)
  <2>1. Registers' /\ DrivesAgree'
    BY <1>1, <1>0, MovedOn DEF Two!Start
  <2>2. Tables'
    BY <1>1 DEF Two!Start, DriveInv, Tables
  <2> QED
    BY <1>1, <2>1, <2>2, Unsaved DEF Two!Start
<1>2. CASE Two!Build(p)
  <2> DEFINE cached == links[req[p].user]
             g == [req[p] EXCEPT !.at = Two!AfterBody(p), !.version = Two!Oldest(@, cached)]
  <2>f. file' = file /\ ~Two!At(p, "idle")
    BY <1>2 DEF Two!Build
  <2>1. ASSUME Two!Move(p, Two!AfterBody(p)) \/ Two!Move(p, "cache") PROVE Registers' /\ DrivesAgree'
    BY <2>1, <2>f, <1>0, MovedOn
  <2>2. ASSUME cached # None, Two!Set(p, g) PROVE Registers' /\ DrivesAgree'
    <3>1. cached \in Two!Versions
      <4>1. req[p].user \in Users
        BY <1>2 DEF Two!Build, DriveInv, Registers, WellFormed
      <4> QED
        BY <4>1, <2>2 DEF DriveInv, Tables
    <3>2. g \in Two!Register /\ g.at = Two!AfterBody(p)
      BY <3>1, <1>r, <1>0, VersionsAreVersions DEF Two!Register
    <3>3. g.user \in Users
      BY <1>r, <1>2 DEF Two!Build, DriveInv, Registers, WellFormed, Two!Register
    <3>4. WellFormed(g) /\ GoesOn(g, req[p])
      BY <3>2, <3>3, <1>0 DEF WellFormed, GoesOn
    <3>5. req' = [req EXCEPT ![p] = g]
      BY <2>2 DEF Two!Set
    <3> HIDE DEF g
    <3> QED
      BY <3>4, <3>5, <2>f, GoingOn DEF DriveInv
  <2>3. \/ Two!Move(p, Two!AfterBody(p)) \/ Two!Move(p, "cache")
        \/ cached # None /\ Two!Set(p, g)
    BY <1>2 DEF Two!Build
  <2>4. Tables'
    BY <1>2 DEF Two!Build, DriveInv, Tables
  <2> QED
    BY <2>f, <2>1, <2>2, <2>3, <2>4, Unsaved
<1>3. CASE Two!Cache(p)
  <2>1. Registers' /\ DrivesAgree'
    BY <1>3, <1>0, MovedOn DEF Two!Cache
  <2>2. Tables'
    BY <1>3, <1>r DEF Two!Cache, DriveInv, Tables, Two!Register
  <2> QED
    BY <1>3, <2>1, <2>2, Unsaved DEF Two!Cache
<1>4. CASE Two!Reply(p)
  <2>1. Registers' /\ DrivesAgree'
    BY <1>4, GivenUp DEF Two!Reply
  <2>2. Tables'
    BY <1>4 DEF Two!Reply, DriveInv, Tables
  <2> QED
    BY <1>4, <2>1, <2>2, Unsaved DEF Two!Reply
<1> QED
  BY <1>1, <1>2, <1>3, <1>4

\* The file of a user is found, or is to be created.
LEMMA FindStep ==
    ASSUME DriveInv, NEW p \in Two!Processes, Two!Find(p)
    PROVE  DriveInv' /\ KeepsDrives
<1> USE DEF Two!tables, Two!spent, Two!copies, Two!At
<1>r. req[p] \in Two!Register
  BY DEF DriveInv, Registers
<1>u. req[p].user \in Users
  BY DEF Two!Find, DriveInv, Registers, WellFormed
<1>4. file' = file
  BY DEF Two!Find
<1>1. CASE Two!Move(p, "create")
  <2>1. Registers' /\ DrivesAgree'
    BY <1>1, MovedOn DEF Two!Find, Two!Stages, WithFile, WithRow
  <2> QED
    BY <2>1, Unsaved DEF Two!Find, DriveInv, Tables
<1>2. ASSUME NEW id \in Two!Linked(req[p].user), Two!Set(p, [req[p] EXCEPT !.at = "reread", !.id = id])
      PROVE  Registers' /\ DrivesAgree'
  <2> DEFINE g == [req[p] EXCEPT !.at = "reread", !.id = id]
  <2>1. id \in FileIds
    BY <1>2 DEF Two!Linked, Two!FileIds, FileIds
  <2>2. g \in Two!Register /\ g.at = "reread" /\ g.id = id /\ g.user = req[p].user
    BY <1>r, <2>1 DEF Two!Register, Two!Stages, Two!FileIds, FileIds
  <2>3. WellFormed(g) /\ GoesOn(g, req[p])
    BY <2>1, <2>2, <1>u DEF WellFormed, GoesOn, WithRow
  <2>4. req' = [req EXCEPT ![p] = g]
    BY <1>2 DEF Two!Set
  <2> HIDE DEF g
  <2> QED
    BY <2>3, <2>4, <1>4, GoingOn DEF DriveInv
<1>3. Tables'
  BY DEF Two!Find, DriveInv, Tables
<1>5. (\E id \in Two!Linked(req[p].user) : Two!Set(p, [req[p] EXCEPT !.at = "reread", !.id = id]))
      \/ Two!Move(p, "create")
  BY DEF Two!Find
<1> QED
  BY <1>1, <1>2, <1>3, <1>4, <1>5, Unsaved

\* The id of a new row is one that nobody else has chosen.
LEMMA CreateStep ==
    ASSUME DriveInv, NEW p \in Two!Processes, Two!Create(p)
    PROVE  DriveInv' /\ KeepsDrives
<1> USE DEF Two!tables, Two!spent, Two!copies, Two!At
<1>r. req[p] \in Two!Register
  BY DEF DriveInv, Registers
<1> DEFINE new == [slug |-> req[p].user, link |-> req[p].user, content |-> req[p].version, drive |-> None]
           g(id) == [req[p] EXCEPT !.at = "insert", !.for = "create", !.id = id, !.row = new]
<1>4. file' = file /\ req[p].user \in Users
  BY DEF Two!Create, DriveInv, Registers, WellFormed
<1>1. ASSUME Two!Finish(p) PROVE Registers' /\ DrivesAgree'
  BY <1>1, <1>4, GivenUp
<1>2. ASSUME NEW id \in Two!Least(Two!FreeIds), Two!Set(p, g(id))
      PROVE  Registers' /\ DrivesAgree'
  <2>1. id \in FileIds /\ file[id] = None /\ \A q \in Two!Processes : req[q].id # id
    BY <1>2 DEF Two!Least, Two!FreeIds, Two!FileIds, FileIds
  <2>2. new \in Two!Row
    BY <1>r DEF Two!Row, Two!Register
  <2>3. g(id) \in Two!Register /\ g(id).id = id /\ g(id).user = req[p].user
    <3> HIDE DEF new
    <3> QED
      BY <1>r, <2>1, <2>2 DEF Two!Register, Two!Stages, Two!FileIds, FileIds
  <2>4. WellFormed(g(id)) /\ SavesDriveOfRow(g(id))
    BY <1>4, <2>1, <2>3 DEF WellFormed, SavesDriveOfRow
  <2>5. \A q \in Two!Processes \ {p} : SavesDriveOf(g(id), req[q])
    BY <2>1, <2>3 DEF SavesDriveOf
  <2>6. req' = [req EXCEPT ![p] = g(id)]
    BY <1>2 DEF Two!Set
  <2> HIDE DEF g
  <2> QED
    BY <2>4, <2>5, <2>6, <1>4, RegisterStep DEF DriveInv
<1>3. Tables'
  BY DEF Two!Create, DriveInv, Tables
<1>5. Two!Finish(p) \/ \E id \in Two!Least(Two!FreeIds) : Two!Set(p, g(id))
  BY DEF Two!Create
<1> QED
  BY <1>1, <1>2, <1>3, <1>4, <1>5, Unsaved

\* The row a request reads takes the place of the one in its register.
LEMMA ReadRow ==
    ASSUME DriveInv, NEW p \in Two!Processes, NEW stage \in WithRow, NEW row \in Two!Row,
           req[p].at \in WithFile, file' = file, Two!Read(p, stage, row),
           \/ row = file[req[p].id] /\ row # None
           \/ req[p].at \in WithRow /\ row.drive = req[p].row.drive
    PROVE  Registers' /\ DrivesAgree'
<1> DEFINE g == [req[p] EXCEPT !.at = stage, !.row = row]
<1>1. WellFormed(req[p])
  BY DEF DriveInv, Registers
<1>2. stage \in Two!Stages
  BY DEF WithRow, WithFile, Two!Stages
<1>3. /\ g \in Two!Register /\ g.at = stage
      /\ g.id = req[p].id /\ g.user = req[p].user /\ g.row = row
  BY <1>1, <1>2 DEF WellFormed, Two!Register
<1>4. WellFormed(g)
  BY <1>1, <1>3 DEF WellFormed, WithFile
<1>5. req' = [req EXCEPT ![p] = g]
  BY DEF Two!Read, Two!Set
<1> HIDE DEF g
<1>6. CASE row = file[req[p].id] /\ row # None
  <2>1. SavesDriveOfRow(g)
    BY <1>3, <1>6 DEF SavesDriveOfRow
  <2>2. \A q \in Two!Processes \ {p} : SavesDriveOf(g, req[q])
    BY <1>3, <1>6 DEF SavesDriveOf, DriveInv, DrivesAgree, SavesDriveOfRow
  <2> QED
    BY <1>4, <1>5, <2>1, <2>2, RegisterStep DEF DriveInv
<1>7. CASE req[p].at \in WithRow /\ row.drive = req[p].row.drive
  <2>1. GoesOn(g, req[p])
    BY <1>3, <1>7 DEF GoesOn
  <2> QED
    BY <1>4, <1>5, <2>1, GoingOn DEF DriveInv
<1> QED
  BY <1>6, <1>7

\* Steps that save a row.
LEMMA SaveSteps ==
    ASSUME DriveInv, NEW p \in Two!Processes, Two!Insert(p) \/ Two!Save(p) \/ Two!FinishFile(p)
    PROVE  DriveInv' /\ KeepsDrives
<1> USE DEF Two!tables, Two!spent, Two!copies, Two!At
<1>1. req[p] \in Two!Register /\ (req[p].at # "idle" => req[p].user \in Users)
  BY DEF DriveInv, Registers, WellFormed
<1>2. /\ req[p].row \in Two!Row
      /\ req[p].version \in Two!Versions
      /\ {"disk", "again", "idle"} \subseteq Two!Stages
  BY <1>1 DEF Two!Register, Two!Stages
<1>3. UNCHANGED <<edit, links, exists, deletions, faults, disk, drive, todo>>
  BY DEF Two!Insert, Two!Save, Two!FinishFile
<1>4. CASE Two!Insert(p)
  BY <1>2, <1>3, <1>4, Saved DEF Two!Insert, WithRow, WithFile
<1>5. CASE Two!FinishFile(p)
  BY <1>2, <1>3, <1>5, Saved DEF Two!FinishFile, WithRow, WithFile
<1>6. CASE Two!Save(p)
  <2> DEFINE row == [req[p].row EXCEPT !.content = req[p].version, !.link = req[p].user]
  <2>1. row \in Two!Row /\ row.drive = req[p].row.drive
    BY <1>1, <1>2, <1>6 DEF Two!Row, Two!Save
  <2>2. Two!SaveRow(p, row, "again") /\ req[p].at \in WithRow
    BY <1>6 DEF Two!Save, WithRow, WithFile
  <2> HIDE DEF row
  <2> QED
    BY <1>2, <1>3, <2>1, <2>2, Saved
<1> QED
  BY <1>4, <1>5, <1>6

\* Steps that read a row.
LEMMA ReadSteps ==
    ASSUME DriveInv, NEW p \in Two!Processes, Two!Reread(p) \/ Two!Again(p) \/ Two!Fresh(p)
    PROVE  DriveInv' /\ KeepsDrives
<1> USE DEF Two!tables, Two!spent, Two!copies, Two!At
<1>1. file' = file /\ req[p].at \in {"reread", "again", "fresh"}
  BY DEF Two!Reread, Two!Again, Two!Fresh
<1>2. Tables'
  BY DEF Two!Reread, Two!Again, Two!Fresh, DriveInv, Tables
<1>3. req[p].at \in WithFile /\ req[p].id \in FileIds /\ req[p].row \in Two!Row
  BY <1>1 DEF WithFile, DriveInv, Registers, WellFormed, Two!Register
<1>4. file[req[p].id] # None => file[req[p].id] \in Two!Row
  BY <1>3 DEF DriveInv, Tables
<1>5. {"save", "disk", "finish"} \subseteq WithRow
  BY DEF WithRow, WithFile
<1>6. CASE Two!Finish(p)
  <2>1. Registers' /\ DrivesAgree'
    BY <1>1, <1>6, GivenUp
  <2> QED
    BY <1>1, <1>2, <2>1, Unsaved
<1>7. CASE file[req[p].id] # None /\ \E stage \in {"save", "disk"} : Two!Read(p, stage, file[req[p].id])
  <2>1. Registers' /\ DrivesAgree'
    BY <1>1, <1>3, <1>4, <1>5, <1>7, ReadRow
  <2> QED
    BY <1>1, <1>2, <2>1, Unsaved
<1>8. CASE Two!Fresh(p)
  <2> DEFINE read == IF file[req[p].id] = None THEN Two!NoRow ELSE file[req[p].id]
             row == [read EXCEPT !.drive = req[p].row.drive]
  <2>1. read \in Two!Row
    BY <1>4 DEF Two!NoRow, Two!Row, Two!Versions
  <2>2. row \in Two!Row /\ row.drive = req[p].row.drive
    <3> HIDE DEF read
    <3> QED
      BY <1>3, <2>1 DEF Two!Row
  <2>3. Two!Read(p, "finish", row) /\ req[p].at \in WithRow
    BY <1>8 DEF Two!Fresh, WithRow, WithFile
  <2> HIDE DEF row
  <2>4. Registers' /\ DrivesAgree'
    BY <1>1, <1>3, <1>5, <2>2, <2>3, ReadRow
  <2> QED
    BY <1>1, <1>2, <2>4, Unsaved
<1>9. CASE Two!Reread(p)
  BY <1>6, <1>7, <1>9 DEF Two!Reread
<1>10. CASE Two!Again(p)
  BY <1>6, <1>7, <1>10 DEF Two!Again
<1> QED
  BY <1>8, <1>9, <1>10

\* Steps that write the local copy and the Drive copy.
LEMMA CopySteps ==
    ASSUME DriveInv, NEW p \in Two!Processes, Two!Disk(p) \/ Two!Drive(p) \/ Two!DriveFails(p)
    PROVE  DriveInv' /\ KeepsDrives
<1> USE DEF Two!tables, Two!spent, Two!copies, Two!At
<1>1. req[p] \in Two!Register
  BY DEF DriveInv, Registers
<1>2. file' = file /\ req[p].at \in {"disk", "drive"}
  BY DEF Two!Disk, Two!Drive, Two!NoDrive, Two!DriveUpdate, Two!DriveCreate, Two!DriveFails
<1>3. Two!AfterDrive(p) \in {"finish", "fresh"}
  BY DEF Two!AfterDrive
<1>4. \E stage \in {"drive", "finish", "fresh"} : Two!Move(p, stage)
  BY <1>3 DEF Two!Disk, Two!Drive, Two!NoDrive, Two!DriveUpdate, Two!DriveCreate, Two!DriveFails
<1>5. Registers' /\ DrivesAgree'
  BY <1>2, <1>4, MovedOn DEF WithFile, WithRow, Two!Stages
<1>6. Tables'
  <2>1. req[p].row.content \in Two!Versions
    BY <1>1 DEF Two!Register, Two!Row
  <2>2. CASE Two!Disk(p)
    BY <2>1, <2>2 DEF Two!Disk, DriveInv, Tables
  <2>3. CASE Two!Drive(p)
    BY <2>1, <2>3 DEF Two!Drive, Two!NoDrive, Two!DriveUpdate, Two!DriveCreate, DriveInv, Tables
  <2>4. CASE Two!DriveFails(p)
    BY <2>4 DEF Two!DriveFails, Two!Fault, DriveInv, Tables
  <2> QED
    BY <2>2, <2>3, <2>4
<1> QED
  BY <1>2, <1>5, <1>6, Unsaved

\* Steps that delete a user with its file.
LEMMA DeleteSteps ==
    ASSUME DriveInv, NEW p \in Two!Processes,
           \/ Two!DeleteFind(p) \/ Two!DeleteRow(p) \/ Two!DeleteDisk(p) \/ Two!DeleteUser(p) \/ Two!DeleteFile(p)
    PROVE  DriveInv' /\ KeepsDrives
<1> USE DEF Two!tables, Two!spent, Two!copies, Two!At
<1>1. WellFormed(req[p]) /\ ~Two!At(p, "idle")
  BY DEF Two!DeleteFind, Two!DeleteRow, Two!DeleteDisk, Two!DeleteUser, Two!DeleteFile, DriveInv, Registers
<1>2. \A stage \in {"delete-user", "delete-row", "delete-disk", "delete-file"} :
        stage \in Two!Stages \ (WithFile \cup WithRow)
  BY DEF Two!Stages, WithFile, WithRow
<1>3. ASSUME file' = file, \E stage \in {"delete-user", "delete-disk", "delete-file"} : Two!Move(p, stage)
      PROVE  Registers' /\ DrivesAgree'
  BY <1>1, <1>2, <1>3, MovedOn
<1>4. CASE Two!DeleteFind(p)
  <2> DEFINE g(id) == [req[p] EXCEPT !.at = "delete-row", !.id = id]
  <2>1. file' = file
    BY <1>4 DEF Two!DeleteFind
  <2>2. ASSUME NEW id \in Two!Linked(req[p].user), Two!Set(p, g(id)) PROVE Registers' /\ DrivesAgree'
    <3>1. id \in Two!FileIds
      BY <2>2 DEF Two!Linked
    <3>2. g(id) \in Two!Register /\ g(id).at = "delete-row" /\ g(id).user = req[p].user
      BY <1>1, <3>1 DEF WellFormed, Two!Register, Two!Stages
    <3>3. WellFormed(g(id)) /\ GoesOn(g(id), req[p])
      BY <1>1, <1>2, <3>2 DEF WellFormed, GoesOn
    <3>4. req' = [req EXCEPT ![p] = g(id)]
      BY <2>2 DEF Two!Set
    <3> HIDE DEF g
    <3> QED
      BY <2>1, <3>3, <3>4, GoingOn DEF DriveInv
  <2>3. Two!Move(p, "delete-user") \/ \E id \in Two!Linked(req[p].user) : Two!Set(p, g(id))
    BY <1>4 DEF Two!DeleteFind
  <2>4. Tables'
    BY <1>4 DEF Two!DeleteFind, DriveInv, Tables
  <2> QED
    BY <2>1, <2>2, <2>3, <2>4, <1>3, Unsaved
<1>5. CASE Two!DeleteRow(p) \/ Two!DeleteDisk(p)
  <2>1. file' = file /\ \E stage \in {"delete-user", "delete-disk", "delete-file"} : Two!Move(p, stage)
    BY <1>5 DEF Two!DeleteRow, Two!DeleteDisk
  <2>2. Tables'
    BY <1>5 DEF Two!DeleteRow, Two!DeleteDisk, DriveInv, Tables
  <2> QED
    BY <2>1, <2>2, <1>3, Unsaved
<1>6. CASE Two!DeleteUser(p)
  <2>1. file' = file /\ Two!Finish(p)
    BY <1>6 DEF Two!DeleteUser
  <2>2. Tables'
    BY <1>6 DEF Two!DeleteUser, DriveInv, Tables
  <2> QED
    BY <2>1, <2>2, GivenUp, Unsaved
<1>7. CASE Two!DeleteFile(p)
  <2> DEFINE g == [req[p] EXCEPT !.at = "delete-user"]
  <2>1. WellFormed(g) /\ g.at = "delete-user"
    BY <1>1, <1>2 DEF WellFormed, Two!Register
  <2>2. req' = [req EXCEPT ![p] = g] /\ file' = [file EXCEPT ![req[p].id] = None]
    BY <1>7 DEF Two!DeleteFile, Two!Move, Two!Set
  <2>3. Tables'
    BY <1>7 DEF Two!DeleteFile, DriveInv, Tables
  <2>4. \A id \in FileIds : file'[id] # None => file'[id] = file[id]
    BY <2>2 DEF DriveInv, Tables
  <2> HIDE DEF g
  <2>5. req' \in [Two!Processes -> Two!Register]
    BY <2>1, <2>2 DEF DriveInv, Registers, WellFormed
  <2>6. \A q \in Two!Processes : req'[q] = IF q = p THEN g ELSE req[q]
    BY <2>2 DEF DriveInv, Registers
  <2>7. Registers'
    BY <2>1, <2>5, <2>6 DEF DriveInv, Registers, WellFormed
  <2>8. g.at \notin WithRow
    BY <2>1 DEF WithRow, WithFile
  <2>9. DrivesAgree'
    <3>1. \A q, r \in Two!Processes : SavesDriveOf(req[q], req[r])'
      BY <2>6, <2>8 DEF DriveInv, DrivesAgree, SavesDriveOf
    <3>2. \A q \in Two!Processes : SavesDriveOfRow(req[q])'
      <4> SUFFICES ASSUME NEW q \in Two!Processes, req'[q].at \in WithRow, file'[req'[q].id] # None
                   PROVE  req'[q].row.drive = file'[req'[q].id].drive
        BY DEF SavesDriveOfRow
      <4>1. req'[q] = req[q]
        BY <2>6, <2>8
      <4>2. req[q].id \in FileIds
        BY <4>1 DEF DriveInv, Registers, WellFormed, WithRow
      <4> QED
        BY <4>1, <4>2, <2>4 DEF DriveInv, DrivesAgree, SavesDriveOfRow
    <3> QED
      BY <3>1, <3>2 DEF DrivesAgree
  <2> QED
    BY <2>3, <2>4, <2>7, <2>9 DEF DriveInv, KeepsDrives
<1> QED
  BY <1>4, <1>5, <1>6, <1>7

\* Any step of a request under way.
LEMMA ContinueSteps ==
    ASSUME DriveInv, NEW p \in Two!Processes, Two!Continue(p)
    PROVE  DriveInv' /\ KeepsDrives
<1>1. CASE Two!Start(p) \/ Two!Build(p) \/ Two!Cache(p) \/ Two!Reply(p) \/ Two!Find(p) \/ Two!Create(p)
  BY <1>1, BodySteps, FindStep, CreateStep
<1>2. CASE Two!Insert(p) \/ Two!Reread(p) \/ Two!Save(p) \/ Two!Again(p) \/ Two!Fresh(p) \/ Two!FinishFile(p)
  BY <1>2, SaveSteps, ReadSteps
<1>3. CASE Two!Disk(p) \/ Two!Drive(p)
  BY <1>3, CopySteps
<1>4. CASE \/ Two!DeleteFind(p) \/ Two!DeleteRow(p) \/ Two!DeleteDisk(p) \/ Two!DeleteFile(p)
           \/ Two!DeleteUser(p)
  BY <1>4, DeleteSteps
<1> QED
  BY <1>1, <1>2, <1>3, <1>4 DEF Two!Continue

\* Requests that begin or fail, and what happens besides them.
LEMMA ArrivalSteps ==
    ASSUME DriveInv, NEW r \in Requests \cup {r2}, NEW u \in Users, Two!Arrive(r, u)
    PROVE  DriveInv' /\ KeepsDrives
<1>1. r \in Two!Processes
  BY DEF Two!Processes
<1>2. edit \in Two!Versions /\ 0 \in Two!Versions
  BY DEF DriveInv, Tables, Two!Versions
<1>3. file' = file
  BY DEF Two!Arrive, Two!Serve, Two!Upsert, Two!DeleteBegin, Two!tables
<1>4. Registers' /\ DrivesAgree'
  <2>1. CASE Two!Serve(r, u)
    BY <2>1, <1>1, <1>2, <1>3, Begun DEF Two!Serve
  <2>2. CASE Two!Upsert(r, u)
    BY <2>2, <1>1, <1>2, <1>3, Begun DEF Two!Upsert
  <2>3. CASE Two!DeleteBegin(r, u)
    BY <2>3, <1>1, <1>2, <1>3, Begun DEF Two!DeleteBegin
  <2> QED
    BY <2>1, <2>2, <2>3 DEF Two!Arrive
<1>5. Tables'
  BY DEF Two!Arrive, Two!Serve, Two!Upsert, Two!DeleteBegin, Two!tables, Two!spent, Two!copies, DriveInv, Tables
<1> QED
  BY <1>3, <1>4, <1>5, Unsaved

\* Failures, expiries, the refresh, changes of the data and restarts.
LEMMA OtherSteps ==
    ASSUME DriveInv,
           \/ \E p \in Two!Processes : Two!Fails(p)
           \/ \E u \in Users : Two!Expire(u) \/ Two!RefreshUser(u)
           \/ Two!Edit \/ Two!RefreshStart \/ Two!Restart
    PROVE  DriveInv' /\ KeepsDrives
<1> USE DEF Two!tables, Two!spent, Two!copies
<1>1. file' = file
  BY DEF Two!Fails, Two!Expire, Two!RefreshUser, Two!Edit, Two!RefreshStart, Two!Restart
<1>2. ASSUME UNCHANGED req PROVE Registers' /\ DrivesAgree'
  BY <1>1, <1>2 DEF DriveInv, Registers, DrivesAgree, SavesDriveOfRow
<1>3. CASE \E p \in Two!Processes : Two!Fails(p)
  <2>1. Registers' /\ DrivesAgree'
    BY <1>1, <1>3, GivenUp DEF Two!Fails
  <2>2. Tables'
    BY <1>3 DEF Two!Fails, Two!Fault, DriveInv, Tables
  <2> QED
    BY <1>1, <2>1, <2>2, Unsaved
<1>4. CASE \E u \in Users : Two!Expire(u)
  <2>1. Tables' /\ UNCHANGED req
    BY <1>4 DEF Two!Expire, DriveInv, Tables
  <2> QED
    BY <1>1, <1>2, <2>1, Unsaved
<1>5. CASE \E u \in Users : Two!RefreshUser(u)
  <2>1. PICK u \in Users : Two!RefreshUser(u)
    BY <1>5
  <2>2. todo[u] \in Two!Versions /\ "refresh" \in Two!Processes
    BY <2>1 DEF Two!RefreshUser, DriveInv, Tables, Two!Processes
  <2>3. Registers' /\ DrivesAgree'
    BY <1>1, <2>1, <2>2, Begun DEF Two!RefreshUser
  <2>4. Tables'
    BY <2>1 DEF Two!RefreshUser, DriveInv, Tables
  <2> QED
    BY <1>1, <2>3, <2>4, Unsaved
<1>6. CASE Two!Edit
  <2>1. Tables' /\ UNCHANGED req
    BY <1>6 DEF Two!Edit, DriveInv, Tables, Two!Versions
  <2> QED
    BY <1>1, <1>2, <2>1, Unsaved
<1>7. CASE Two!RefreshStart
  <2>1. Tables' /\ UNCHANGED req
    BY <1>7 DEF Two!RefreshStart, Two!Listed, DriveInv, Tables
  <2> QED
    BY <1>1, <1>2, <2>1, Unsaved
<1>8. CASE Two!Restart
  <2>1. \A p \in Two!Processes : req'[p] = Two!Idle
    BY <1>8 DEF Two!Restart
  <2>2. Two!Idle.at \notin WithRow
    BY DEF Two!Idle, WithRow, WithFile
  <2>3. Registers'
    BY <1>8, <2>1, Finished DEF Two!Restart, Registers, WellFormed
  <2>4. DrivesAgree'
    BY <2>1, <2>2 DEF DrivesAgree, SavesDriveOf, SavesDriveOfRow
  <2>5. Tables'
    BY <1>8 DEF Two!Restart, Two!Fault, DriveInv, Tables
  <2> QED
    BY <1>1, <2>3, <2>4, <2>5, Unsaved
<1> QED
  BY <1>3, <1>4, <1>5, <1>6, <1>7, <1>8

\* Every step keeps the invariant and the Drive files of rows.
LEMMA TwoSteps ==
    ASSUME DriveInv, Two!Next
    PROVE  DriveInv' /\ KeepsDrives
<1>1. CASE \E r \in Requests \cup {r2}, u \in Users : Two!Arrive(r, u)
  BY <1>1, ArrivalSteps
<1>2. CASE \E p \in Two!Processes : Two!Continue(p)
  BY <1>2, ContinueSteps
<1>3. CASE \E p \in Two!Processes : Two!DriveFails(p)
  BY <1>3, CopySteps
<1>4. CASE \/ \E p \in Two!Processes : Two!Fails(p)
           \/ \E u \in Users : Two!Expire(u) \/ Two!RefreshUser(u)
           \/ Two!Edit \/ Two!RefreshStart \/ Two!Restart
  BY <1>4, OtherSteps
<1> QED
  BY <1>1, <1>2, <1>3, <1>4 DEF Two!Next

\* Files made before have a row, a copy and a Drive file each.
LEMMA DrivesBegin == Two!Init => DriveInv
<1> SUFFICES ASSUME Two!Init PROVE DriveInv
  OBVIOUS
<1>1. Registers /\ DrivesAgree
  <2>1. \A p \in Two!Processes : req[p] = Two!Idle
    BY DEF Two!Init
  <2>2. Two!Idle.at \notin WithRow
    BY DEF Two!Idle, WithRow, WithFile
  <2>3. Registers
    BY <2>1, Finished DEF Two!Init, Registers, WellFormed
  <2> QED
    BY <2>1, <2>2, <2>3 DEF DrivesAgree, SavesDriveOf, SavesDriveOfRow
<1>2. /\ edit \in Two!Versions /\ exists \subseteq Users
      /\ links \in [Users -> Two!Versions \cup {None}]
      /\ deletions \in 0 .. MaxDeletes /\ faults \in 0 .. MaxFaults
      /\ todo \in [Users -> Two!Versions \cup {None}]
  BY DEF Two!Init, Two!Versions
<1>3. /\ file \in [FileIds -> Two!Row \cup {None}]
      /\ disk \in [Users -> Two!Versions \cup {None}]
      /\ drive \in [Two!DriveIds -> Two!Versions \cup {None}]
  <2>1. CASE ~LegacyDrive
    BY <2>1 DEF Two!Init, FileIds, Two!FileIds
  <2>2. CASE LegacyDrive
    <3> DEFINE owner(id, f) == CHOOSE u \in Users : id[u] = f
               row(id, f) == [slug |-> owner(id, f), link |-> owner(id, f), content |-> 0, drive |-> f]
    <3>1. PICK id \in [Users -> 1 .. Two!Cardinality(Users)] :
            /\ file = [f \in Two!FileIds |-> IF \E u \in Users : id[u] = f THEN row(id, f) ELSE None]
            /\ disk = [u \in Users |-> 0]
            /\ drive = [d \in Two!DriveIds |-> IF \E u \in Users : id[u] = d THEN 0 ELSE None]
      BY <2>2 DEF Two!Init
    <3>2. \A f \in Two!FileIds : f \in Two!DriveIds
      BY <2>2, LegacyAssumption DEF Two!FileIds, Two!DriveIds
    <3>3. ASSUME NEW f \in Two!FileIds, \E u \in Users : id[u] = f PROVE row(id, f) \in Two!Row
      <4>1. owner(id, f) \in Users
        BY <3>3
      <4> HIDE DEF owner
      <4> QED
        BY <4>1, <3>2 DEF Two!Row, Two!Versions
    <3> HIDE DEF row
    <3> QED
      BY <3>1, <3>3 DEF Two!Versions, FileIds, Two!FileIds
  <2> QED
    BY <2>1, <2>2
<1> QED
  BY <1>1, <1>2, <1>3 DEF DriveInv, Tables

\* With two requests at once, every row, copy and register keeps its type, for
\* any users, requests and bounds.
THEOREM TwoTypeCorrect == Two!Spec => []Two!TypeOK
<1>1. DriveInv /\ [Two!Next]_(Two!vars) => DriveInv'
  <2> SUFFICES ASSUME DriveInv, [Two!Next]_(Two!vars) PROVE DriveInv'
    OBVIOUS
  <2>1. CASE Two!Next
    BY <2>1, TwoSteps
  <2>2. CASE UNCHANGED Two!vars
    BY <2>2 DEF Two!vars, Two!tables, Two!spent, Two!copies, DriveInv, Tables, Registers, DrivesAgree,
                SavesDriveOfRow
  <2> QED
    BY <2>1, <2>2
<1>2. DriveInv => Two!TypeOK
  BY DEF DriveInv, Tables, Registers, Two!TypeOK, Two!FileIds, FileIds
<1> QED
  BY <1>1, <1>2, DrivesBegin, PTL DEF Two!Spec

\* For any requests and bounds: as long as no Drive files are made, a row keeps
\* the Drive file it has, however requests that update, delete and create the
\* file of a user overlap, fail or are cut off ("The URL is the client's stable
\* identity", files.js).
THEOREM DriveIdentitiesStay == MCSpec => TwoDriveIdentityStays
<1> DEFINE Inv == scenario = "identity" => DriveInv
<1>1. MCInit => Inv
  BY DrivesBegin DEF MCInit
<1>2. Inv /\ [MCNext]_<<scenario, vars>> => Inv' /\ [scenario = "identity" => KeepsDrives]_vars
  <2> SUFFICES ASSUME Inv, [MCNext]_<<scenario, vars>>
               PROVE  Inv' /\ [scenario = "identity" => KeepsDrives]_vars
    OBVIOUS
  <2>1. CASE MCNext
    BY <2>1, TwoSteps DEF MCNext
  <2>2. CASE UNCHANGED <<scenario, vars>>
    BY <2>2 DEF vars, tables, spent, copies, DriveInv, Tables, Registers, DrivesAgree, SavesDriveOfRow
  <2> QED
    BY <2>1, <2>2
<1>3. [scenario = "identity" => KeepsDrives]_vars
      => [scenario = "identity" =>
            \A id \in FileIds :
                file[id] # None /\ file'[id] # None /\ file[id].drive # None
                => file'[id].drive = file[id].drive]_vars
  BY DEF KeepsDrives
<1> QED
  BY <1>1, <1>2, <1>3, PTL DEF MCSpec, TwoDriveIdentityStays
=============================================================================
