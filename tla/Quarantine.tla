----------------------------- MODULE Quarantine -----------------------------
(***************************************************************************)
(* The quarantine of leftover files (lib/maintenance-quarantine.js): an    *)
(* administrator has audited files moved to the directory of a new job and *)
(* has jobs restored.  Requests overlap at every await; others go on       *)
(* writing files meanwhile.                                                *)
(*                                                                         *)
(* A file is what it contains: each one written is a number of its own, so *)
(* that a rename which replaces another file shows.  A job's manifest      *)
(* names its files and whether they were restored; writing it is no single *)
(* step of the file system and may leave half of it.                       *)
(***************************************************************************)
EXTENDS Naturals, Sequences, FiniteSets, SequencesExt

CONSTANTS
    Paths,
    Jobs,
    Admins,      \* requests that may be in flight at once
    MaxFiles,    \* bound on the files ever written
    MaxFaults,   \* bound on calls of the file system that fail, and crashes
    None

VARIABLES
    root,        \* file at each path of the repository, None without
    store,       \* file at each path of a job's directory
    manifest,    \* manifest.json of each job
    task,        \* what each request does next
    written,     \* files written so far
    replaced,    \* files that a rename has replaced
    newer,       \* paths that came to hold a file since a request checked them
    faults,      \* failed calls and crashes so far
    loose        \* jobs that a crash or a failed undo has left as they were

disk == <<root, store, manifest>>
history == <<written, replaced, faults, loose>>
vars == <<disk, task, newer, history>>

-----------------------------------------------------------------------------

Stages == {"idle", "check", "move", "undo"}
NoFiles == [p \in Paths |-> None]

\* `files' are those of the job, `todo' is still to be checked or moved,
\* `done' has been moved.
Idle == [at |-> "idle", for |-> "quarantine", job |-> None, files |-> <<>>, todo |-> <<>>, done |-> <<>>]
Unsigned == [state |-> "none", files |-> <<>>]

At(a, stage) == task[a].at = stage
Set(a, state) == task' = [task EXCEPT ![a] = state]
Job(a) == task[a].job
NextPath(a) == Head(task[a].todo)

\* Each path once, in the order asked for.
Selections == {s \in BoundedSeq(Paths, Cardinality(Paths)) : s # <<>> /\ IsInjective(s)}

Init ==
    /\ root \in [Paths -> {None} \cup 1 .. MaxFiles]
    /\ written = Cardinality({p \in Paths : root[p] # None})
    /\ {root[p] : p \in Paths} \ {None} = 1 .. written
    /\ store = [j \in Jobs |-> NoFiles]
    /\ manifest = [j \in Jobs |-> Unsigned]
    /\ task = [a \in Admins |-> Idle]
    /\ replaced = {} /\ newer = [a \in Admins |-> {}]
    /\ faults = 0 /\ loose = {}

-----------------------------------------------------------------------------
(* rename replaces what is there *)

Arrives(p, except) ==
    newer' = [a \in Admins |-> IF a = except \/ At(a, "idle") THEN newer[a] ELSE newer[a] \cup {p}]

ToStore(a, p) ==
    /\ root[p] # None
    /\ store' = [store EXCEPT ![Job(a)][p] = root[p]]
    /\ root' = [root EXCEPT ![p] = None]
    /\ replaced' = replaced \cup ({store[Job(a)][p]} \ {None})
    /\ newer' = newer

ToRoot(a, p) ==
    /\ store[Job(a)][p] # None
    /\ root' = [root EXCEPT ![p] = store[Job(a)][p]]
    /\ store' = [store EXCEPT ![Job(a)][p] = None]
    /\ replaced' = replaced \cup ({root[p]} \ {None})
    /\ Arrives(p, a)

Move(a, p) == IF task[a].for = "quarantine" THEN ToStore(a, p) ELSE ToRoot(a, p)
MoveBack(a, p) == IF task[a].for = "quarantine" THEN ToRoot(a, p) ELSE ToStore(a, p)
Missing(a, p) == IF task[a].for = "quarantine" THEN root[p] = None ELSE store[Job(a)][p] = None
MissingBack(a, p) == IF task[a].for = "quarantine" THEN store[Job(a)][p] = None ELSE root[p] = None

\* What was moved is undone, last first.
Undoing(a, todo) == Set(a, IF todo = <<>> THEN Idle ELSE [task[a] EXCEPT !.at = "undo", !.todo = todo])
GiveUp(a) == Undoing(a, Reverse(task[a].done))

-----------------------------------------------------------------------------

\* quarantineMaintenanceCandidates: every path holds an audited file.  The
\* directory of the job is new.
Fresh(j) == manifest[j] = Unsigned /\ store[j] = NoFiles /\ j \notin loose /\ \A a \in Admins : Job(a) # j

Quarantine(a, paths) ==
    /\ At(a, "idle")
    /\ \A p \in ToSet(paths) : root[p] # None
    /\ \E j \in Jobs : Fresh(j)
    /\ Set(a, [at |-> "move", for |-> "quarantine", job |-> CHOOSE j \in Jobs : Fresh(j),
               files |-> paths, todo |-> paths, done |-> <<>>])
    /\ newer' = [newer EXCEPT ![a] = {}]
    /\ UNCHANGED <<disk, history>>

\* restoreMaintenanceQuarantine reads the manifest; a job restored before is
\* left as it is.
Restore(a, j) ==
    /\ At(a, "idle")
    /\ manifest[j].state = "completed"
    /\ Set(a, [at |-> "check", for |-> "restore", job |-> j, files |-> manifest[j].files,
               todo |-> manifest[j].files, done |-> <<>>])
    /\ newer' = [newer EXCEPT ![a] = {}]
    /\ UNCHANGED <<disk, history>>

\* A restore that does not look.
CheckNothing(a) ==
    /\ At(a, "check")
    /\ Set(a, [task[a] EXCEPT !.at = "move", !.todo = task[a].files])
    /\ UNCHANGED <<disk, newer, history>>

\* No file may be where one is to be restored.
Check(a) ==
    /\ At(a, "check")
    /\ Set(a, IF root[NextPath(a)] # None THEN Idle
              ELSE IF Len(task[a].todo) = 1 THEN [task[a] EXCEPT !.at = "move", !.todo = task[a].files]
              ELSE [task[a] EXCEPT !.todo = Tail(@)])
    /\ UNCHANGED <<disk, newer, history>>

MoveOne(a) ==
    /\ At(a, "move") /\ task[a].todo # <<>>
    /\ IF Missing(a, NextPath(a))
       THEN GiveUp(a) /\ UNCHANGED <<root, store, replaced, newer>>
       ELSE /\ Move(a, NextPath(a))
            /\ Set(a, [task[a] EXCEPT !.todo = Tail(@), !.done = Append(@, NextPath(a))])
    /\ UNCHANGED <<manifest, written, faults, loose>>

\* The manifest comes after the files.
Sign(a) ==
    /\ At(a, "move") /\ task[a].todo = <<>>
    /\ manifest' = [manifest EXCEPT ![Job(a)] =
           [state |-> IF task[a].for = "quarantine" THEN "completed" ELSE "restored", files |-> task[a].files]]
    /\ Set(a, Idle)
    /\ UNCHANGED <<root, store, newer, history>>

\* An undo that leaves every file where it is.
UndoNothing(a) ==
    /\ At(a, "undo")
    /\ Set(a, Idle)
    /\ UNCHANGED <<disk, newer, history>>

\* A file that is not there any more is passed over.
Undo(a) ==
    /\ At(a, "undo")
    /\ Undoing(a, Tail(task[a].todo))
    /\ IF MissingBack(a, NextPath(a))
       THEN loose' = loose \cup {Job(a)} /\ UNCHANGED <<root, store, replaced, newer>>
       ELSE loose' = loose /\ MoveBack(a, NextPath(a))
    /\ UNCHANGED <<manifest, written, faults>>

-----------------------------------------------------------------------------
(* Failures, crashes and other writers *)

Fault == faults < MaxFaults /\ faults' = faults + 1

MoveFails(a) ==
    /\ At(a, "move") /\ task[a].todo # <<>>
    /\ Fault
    /\ GiveUp(a)
    /\ UNCHANGED <<disk, newer, written, replaced, loose>>

\* The manifest is there in part, or as before.
SignFails(a) ==
    /\ At(a, "move") /\ task[a].todo = <<>>
    /\ Fault
    /\ \/ manifest' = manifest
       \/ manifest' = [manifest EXCEPT ![Job(a)] = [state |-> "broken", files |-> <<>>]]
    /\ GiveUp(a)
    /\ UNCHANGED <<root, store, newer, written, replaced, loose>>

\* A directory cannot be made, which ends the undo; or a rename fails, which
\* is swallowed.
UndoFails(a) ==
    /\ At(a, "undo")
    /\ Fault
    /\ Set(a, Idle) \/ Undoing(a, Tail(task[a].todo))
    /\ loose' = loose \cup {Job(a)}
    /\ UNCHANGED <<disk, newer, written, replaced>>

\* A manifest being written is there in part, or as it was, or complete.
Crash ==
    /\ Fault
    /\ manifest' \in
         {[j \in Jobs |-> IF j \in torn THEN [state |-> "broken", files |-> <<>>] ELSE manifest[j]] :
             torn \in SUBSET {Job(a) : a \in {b \in Admins : At(b, "move") /\ task[b].todo = <<>>}}}
    /\ task' = [a \in Admins |-> Idle]
    /\ loose' = loose \cup ({Job(a) : a \in Admins} \ {None})
    /\ UNCHANGED <<root, store, newer, written, replaced>>

\* A script leaves another file.
Leave(p) ==
    /\ root[p] = None
    /\ written < MaxFiles
    /\ written' = written + 1
    /\ root' = [root EXCEPT ![p] = written + 1]
    /\ Arrives(p, None)
    /\ UNCHANGED <<store, manifest, task, replaced, faults, loose>>

Continue(a) ==
    \/ Check(a) \/ MoveOne(a) \/ Sign(a) \/ Undo(a)
    \/ MoveFails(a) \/ SignFails(a) \/ UndoFails(a)

Next ==
    \/ \E a \in Admins :
         \/ \E paths \in Selections : Quarantine(a, paths)
         \/ \E j \in Jobs : Restore(a, j)
         \/ Continue(a)
    \/ Crash
    \/ \E p \in Paths : Leave(p)

Spec == Init /\ [][Next]_vars

-----------------------------------------------------------------------------

Signed == {"none", "completed", "restored", "broken"}
Task == [at : Stages, for : {"quarantine", "restore"}, job : Jobs \cup {None},
         files : Seq(Paths), todo : Seq(Paths), done : Seq(Paths)]
Files == 1 .. MaxFiles

TypeOK ==
    /\ root \in [Paths -> Files \cup {None}]
    /\ store \in [Jobs -> [Paths -> Files \cup {None}]]
    /\ manifest \in [Jobs -> [state : Signed, files : Seq(Paths)]]
    /\ task \in [Admins -> Task]
    /\ written \in 0 .. MaxFiles /\ replaced \subseteq Files
    /\ newer \in [Admins -> SUBSET Paths]
    /\ loose \subseteq Jobs

Kept(f) == (\E p \in Paths : root[p] = f) \/ \E j \in Jobs, p \in Paths : store[j][p] = f

\* "There is no final deletion" (docs/MAINTENANCE-SAFETY.md): every file that
\* was ever written is in the repository or in the directory of a job, where
\* it is also after crashes and failures, unless a rename has replaced it.
NothingIsDeleted == \A f \in 1 .. written : Kept(f) \/ f \in replaced

\* A rename replaces no file that was there when its request looked: only one
\* that came afterwards, left by a script or restored by another request.
ReplacesOnlyNewFiles ==
    [][\A p \in Paths : root[p] # None /\ root'[p] \notin {None, root[p]} =>
           \E a \in Admins : ~At(a, "idle") /\ p \in newer[a]]_vars

\* A job listed as completed can be restored: while no request is at work on
\* it, every file it names is in its directory, unless a crash or a failed
\* undo has left it otherwise, or another job holds the file because it was
\* restored, and quarantined again, in the middle of a restore that failed.
ListedJobsHoldTheirFiles ==
    \A j \in Jobs :
        /\ manifest[j].state = "completed" /\ j \notin loose
        /\ \A a \in Admins : Job(a) # j
        => \A p \in ToSet(manifest[j].files) : store[j][p] # None
=============================================================================
